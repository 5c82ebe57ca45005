----------------------------- MODULE LedgerBook -----------------------------
(* What a token ledger promises to whoever reads its rows: the book is only   *)
(* ever extended, every entry states the balance of its member and the supply *)
(* right after it, and the current balances and supply are those of the last  *)
(* entries.  An entry has a member, a change and the two figures after it.    *)
EXTENDS Integers, Sequences

CONSTANT Members
VARIABLES book, supply, total

\* Entry j is the one before entry i of the same member.
Precedes(b, j, i) ==
  /\ j < i
  /\ b[j].member = b[i].member
  /\ \A k \in DOMAIN b : j < k /\ k < i => b[k].member # b[i].member

LastOf(b, j, m) ==
  /\ b[j].member = m
  /\ \A k \in DOMAIN b : j < k => b[k].member # m

Chained(b) ==
  \A i \in DOMAIN b :
    /\ b[i].supplyAfter = b[i].change + (IF i = 1 THEN 0 ELSE b[i - 1].supplyAfter)
    /\ \A j \in DOMAIN b : Precedes(b, j, i) => b[i].balanceAfter = b[j].balanceAfter + b[i].change
    /\ (\A j \in DOMAIN b : ~Precedes(b, j, i)) => b[i].balanceAfter = b[i].change

Settles(b, s, amounts) ==
  /\ s = IF b = << >> THEN 0 ELSE b[Len(b)].supplyAfter
  /\ \A m \in Members :
       /\ \A j \in DOMAIN b : LastOf(b, j, m) => amounts[m] = b[j].balanceAfter
       /\ (\A j \in DOMAIN b : b[j].member # m) => amounts[m] = 0

Extends(longer, b) ==
  /\ Len(longer) > Len(b)
  /\ \A i \in DOMAIN b : longer[i] = b[i]

Init == Chained(book) /\ Settles(book, supply, total)

\* One transaction appends its entries and leaves the figures they end with.
Post ==
  /\ Extends(book', book)
  /\ Chained(book')
  /\ Settles(book', supply', total')

Spec == Init /\ [][Post]_<<book, supply, total>>
=============================================================================
