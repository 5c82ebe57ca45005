----------------------------- MODULE RelayChain -----------------------------
(* The governance contract as the relay and the indexer see it: transactions *)
(* of one relayer wallet are mined in the order of their nonces, each in a    *)
(* block of its own, and succeed or revert; a successful one leaves an event. *)
(* The contract itself is the subject of YouFenGovernance.                    *)
EXTENDS Integers, Sequences, FiniteSets, FiniteSetsExt

CONSTANTS
  Actions,        \* chain actions, each with one signed call
  Members,
  Call,           \* the call of an action: kind, member, amount, original
  None

ASSUME CallAssumption ==
  Call \in [Actions -> [kind : {"mint", "reversal", "enroll"}, member : Members,
                        amount : Nat, original : Actions \cup {None}]]

VARIABLES
  sent,           \* the calls broadcast, by nonce; a transaction's hash is its index
  mined,          \* whether each transaction mined so far succeeded, by block
  expired         \* calls whose deadline has passed

chainVars == <<sent, mined, expired>>

Calls(kind) == {a \in Actions : Call[a].kind = kind}

Executed(a) == \E k \in DOMAIN mined : mined[k] /\ sent[k] = a

\* A record hash or a nonce is used once, and a reversal needs its mint.
Accepts(a) ==
  /\ a \notin expired
  /\ ~Executed(a)
  /\ a \in Calls("reversal") => Executed(Call[a].original)

Send(a) == sent' = Append(sent, a) /\ UNCHANGED <<mined, expired>>

Mine ==
  /\ Len(mined) < Len(sent)
  /\ mined' = Append(mined, Accepts(sent[Len(mined) + 1]))
  /\ UNCHANGED <<sent, expired>>

Expire ==
  \E a \in Actions \ expired :
    /\ expired' = expired \cup {a}
    /\ UNCHANGED <<sent, mined>>

-----------------------------------------------------------------------------
(* The event of a block *)

EventIn(k) == mined[k]
Delta(a) == IF a \in Calls("reversal") THEN -Call[a].amount ELSE Call[a].amount
EventsUpTo(k, kinds) == {i \in 1 .. k : mined[i] /\ Call[sent[i]].kind \in kinds}
Moves(k) == EventsUpTo(k, {"mint", "reversal"})
MovesOf(m, k) == {i \in Moves(k) : Call[sent[i]].member = m}

BalanceAfter(m, k) == SumFunction([i \in MovesOf(m, k) |-> Delta(sent[i])])
SupplyAfter(k) == SumFunction([i \in Moves(k) |-> Delta(sent[i])])

\* govSeqAfter is a field of the mint event only.
LedgerSeq(k) == IF sent[k] \in Calls("mint") THEN Cardinality(Moves(k)) ELSE 0

ChainInit == sent = << >> /\ mined = << >> /\ expired = {}
=============================================================================
