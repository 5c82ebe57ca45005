--------------------------- MODULE RequestsProofs ---------------------------
(***************************************************************************)
(* The answers of the HTTP API stay true and repeats replay them, for any  *)
(* number of clients, keys, contributions and answers and for any budget.  *)
(* A handler holds no lock between its statements, so the invariant says   *)
(* what a request still knows of the rows wherever it stands.              *)
(***************************************************************************)
EXTENDS Requests, TLAPS

(***************************************************************************)
(* The invariant.                                                          *)
(***************************************************************************)

Amount == Amounts \cup {0}
Row == [body : Bodies, status : {"pending", "approved", "rejected"}, amount : Amount]
Target == [id : Nat, amount : Amount]

SavedType ==
  [op : Ops, key : Keys \cup {None}, body : Bodies \cup Target, id : Nat, amount : Amount]

RequestType ==
  [op : Ops, key : Keys \cup {None}, body : Bodies \cup Target,
   at : {"start", "run", "read", "commit", "save", "answer"}, id : Nat, amount : Amount,
   repeat : BOOLEAN]

Types ==
  /\ contribution \in Seq(Row)
  /\ mint \in Seq([contribution : Nat, amount : Amount])
  /\ reversal \in Seq([mint : Nat, amount : Amount])
  /\ stored \subseteq SavedType
  /\ answered \subseteq SavedType
  /\ DOMAIN request = Clients
  /\ \A c \in Clients : request[c] = Idle \/ request[c] \in RequestType

Approved(id, amount) ==
  /\ id \in Contributions
  /\ contribution[id].status = "approved"
  /\ contribution[id].amount = amount

\* A contribution is minted once, by its approved amount, and a mint reversed once.
RowsAgree ==
  /\ \A k \in DOMAIN mint : Approved(mint[k].contribution, mint[k].amount)
  /\ \A j, k \in DOMAIN mint : mint[j].contribution = mint[k].contribution => j = k
  /\ \A j, k \in DOMAIN reversal : reversal[j].mint = reversal[k].mint => j = k

\* What an answer says is true, of a row that is there.
Told(a) == Holds(a) /\ (a.op # "reverse" => a.id \in Contributions)

KeyTaken(r) == \E s \in stored : SameKey(s, r)

\* What a request still knows, wherever it stands.
Knows(r) ==
  /\ r.op = "create" => r.body \in Bodies
  /\ r.op \in {"approve", "reject", "mint"} => r.body \in Target /\ r.body.id \in Contributions
  /\ r.op = "reverse" => r.body \in Target
  /\ r.op = "mint" /\ r.at = "commit" => Approved(r.id, r.amount)
  /\ r.at \in {"save", "answer"} => Told(Stored(r))
  /\ r.op \in Keyed /\ r.at = "answer" => KeyTaken(r)
  /\ r.repeat => r.op \in Keyed /\ KeyTaken(r) /\ r.at \notin {"run", "save"}

RequestInv ==
  /\ Types
  /\ RowsAgree
  /\ \A s \in stored : Told(s)
  /\ \A a \in answered : Told(a)
  /\ \A a \in answered : a.op \in Keyed => KeyTaken(a)
  /\ \A c \in Clients : request[c] # Idle => Knows(request[c])

(***************************************************************************)
(* The rows.  Whatever a handler commits, what was true of them stays so.  *)
(***************************************************************************)

Grows ==
  /\ \E body \in Bodies : contribution' = Append(contribution, NewContribution(body))
  /\ UNCHANGED <<mint, reversal>>

Reviews ==
  /\ \E id \in Contributions, new \in Row :
       /\ contribution[id].status = "pending"
       /\ new.body = contribution[id].body
       /\ contribution' = [contribution EXCEPT ![id] = new]
  /\ UNCHANGED <<mint, reversal>>

Mints ==
  /\ \E id \in Contributions, amount \in Amount :
       /\ Approved(id, amount)
       /\ MintsOf(id) = {}
       /\ mint' = Append(mint, [contribution |-> id, amount |-> amount])
  /\ UNCHANGED <<contribution, reversal>>

Reverses ==
  /\ \E k \in Nat, amount \in Amount :
       /\ ReversalsOf(k) = {}
       /\ reversal' = Append(reversal, [mint |-> k, amount |-> amount])
  /\ UNCHANGED <<contribution, mint>>

RowStep == Grows \/ Reviews \/ Mints \/ Reverses \/ UNCHANGED <<contribution, mint, reversal>>

\* Appending a row.
LEMMA Appended ==
  ASSUME NEW S, NEW seq \in Seq(S), NEW x \in S
  PROVE  LET new == Append(seq, x) IN
         /\ new \in Seq(S)
         /\ DOMAIN new = DOMAIN seq \cup {Len(seq) + 1}
         /\ Len(seq) + 1 \notin DOMAIN seq
         /\ new[Len(seq) + 1] = x
         /\ \A k \in DOMAIN seq : new[k] = seq[k]
OBVIOUS

\* What the rows of contributions say stays: a reviewed one is not reviewed again.
LEMMA ReviewedStays ==
  ASSUME Types, RowStep
  PROVE  /\ contribution' \in Seq(Row)
         /\ Contributions \subseteq Contributions'
         /\ \A id \in Contributions :
              /\ contribution'[id].body = contribution[id].body
              /\ contribution[id].status # "pending" => contribution'[id] = contribution[id]
<1>1. CASE Grows
  <2>1. PICK body \in Bodies : contribution' = Append(contribution, NewContribution(body))
    BY <1>1 DEF Grows
  <2>2. NewContribution(body) \in Row
    BY DEF NewContribution, Row, Amount
  <2>3. PICK S : S = Row
    OBVIOUS
  <2> QED BY <2>1, <2>2, <2>3, Appended DEF Types, Contributions
<1>2. CASE Reviews
  BY <1>2 DEF Reviews, Types, Contributions
<1>3. CASE UNCHANGED contribution
  BY <1>3 DEF Types, Contributions
<1> QED BY <1>1, <1>2, <1>3 DEF RowStep, Mints, Reverses

\* An approval stays.
LEMMA ApprovedStays ==
  ASSUME Types, RowStep
  PROVE  \A id, amount : Approved(id, amount) => Approved(id, amount)'
BY ReviewedStays DEF Approved

\* A mint is of an approved contribution that has none.
LEMMA MintStays ==
  ASSUME Types, RowsAgree, RowStep
  PROVE  /\ mint' \in Seq([contribution : Nat, amount : Amount])
         /\ \A k \in DOMAIN mint : k \in DOMAIN mint' /\ mint'[k] = mint[k]
         /\ \A id : MintsOf(id) # {} => MintsOf(id)' = MintsOf(id)
         /\ \A k \in DOMAIN mint' : Approved(mint[k].contribution, mint[k].amount)'
         /\ \A j, k \in DOMAIN mint' : mint'[j].contribution = mint'[k].contribution => j = k
<1>1. CASE Mints
  <2>1. PICK id \in Contributions, amount \in Amount :
          /\ Approved(id, amount) /\ MintsOf(id) = {}
          /\ mint' = Append(mint, [contribution |-> id, amount |-> amount])
    BY <1>1 DEF Mints
  <2>2. id \in Nat
    BY DEF Types, Contributions
  <2>3. PICK S : S = [contribution : Nat, amount : Amount]
    OBVIOUS
  <2>4. PICK x : x = [contribution |-> id, amount |-> amount]
    OBVIOUS
  <2>5. x \in S /\ mint \in Seq(S) /\ mint' = Append(mint, x) /\ x.contribution = id
        /\ x.amount = amount
    BY <2>1, <2>2, <2>3, <2>4 DEF Types
  <2>6. /\ mint' \in Seq(S)
        /\ DOMAIN mint' = DOMAIN mint \cup {Len(mint) + 1}
        /\ Len(mint) + 1 \notin DOMAIN mint
        /\ mint'[Len(mint) + 1] = x
        /\ \A k \in DOMAIN mint : mint'[k] = mint[k]
    BY <2>5, Appended
  <2>7. \A k \in DOMAIN mint : mint[k].contribution # id
    BY <2>1 DEF MintsOf
  <2>8. \A i : MintsOf(i) # {} => MintsOf(i)' = MintsOf(i)
    BY <2>1, <2>5, <2>6, <2>7 DEF MintsOf
  <2>9. \A k \in DOMAIN mint' : Approved(mint[k].contribution, mint[k].amount)'
    BY <2>1, <2>5, <2>6, ApprovedStays DEF RowsAgree
  <2>10. \A j, k \in DOMAIN mint' : mint'[j].contribution = mint'[k].contribution => j = k
    BY <2>5, <2>6, <2>7 DEF RowsAgree
  <2> QED BY <2>3, <2>6, <2>8, <2>9, <2>10
<1>2. CASE UNCHANGED mint
  BY <1>2, ApprovedStays DEF Types, MintsOf, RowsAgree
<1> QED BY <1>1, <1>2 DEF RowStep, Grows, Reviews, Reverses

\* A reversal is of a mint that has none.
LEMMA ReversalStays ==
  ASSUME Types, RowsAgree, RowStep
  PROVE  /\ reversal' \in Seq([mint : Nat, amount : Amount])
         /\ \A k : ReversalsOf(k) # {} => ReversalsOf(k)' = ReversalsOf(k)
         /\ \A j, k \in DOMAIN reversal' : reversal'[j].mint = reversal'[k].mint => j = k
<1>1. CASE Reverses
  <2>1. PICK k \in Nat, amount \in Amount :
          /\ ReversalsOf(k) = {}
          /\ reversal' = Append(reversal, [mint |-> k, amount |-> amount])
    BY <1>1 DEF Reverses
  <2>2. PICK S : S = [mint : Nat, amount : Amount]
    OBVIOUS
  <2>3. PICK x : x = [mint |-> k, amount |-> amount]
    OBVIOUS
  <2>4. x \in S /\ reversal \in Seq(S) /\ reversal' = Append(reversal, x) /\ x.mint = k
    BY <2>1, <2>2, <2>3 DEF Types
  <2>5. /\ reversal' \in Seq(S)
        /\ DOMAIN reversal' = DOMAIN reversal \cup {Len(reversal) + 1}
        /\ reversal'[Len(reversal) + 1] = x
        /\ \A j \in DOMAIN reversal : reversal'[j] = reversal[j]
    BY <2>4, Appended
  <2>6. \A j \in DOMAIN reversal : reversal[j].mint # k
    BY <2>1 DEF ReversalsOf
  <2>7. \A i : ReversalsOf(i) # {} => ReversalsOf(i)' = ReversalsOf(i)
    BY <2>1, <2>4, <2>5, <2>6 DEF ReversalsOf
  <2>8. \A i, j \in DOMAIN reversal' : reversal'[i].mint = reversal'[j].mint => i = j
    BY <2>4, <2>5, <2>6 DEF RowsAgree
  <2> QED BY <2>2, <2>5, <2>7, <2>8
<1>2. CASE UNCHANGED reversal
  BY <1>2 DEF Types, ReversalsOf, RowsAgree
<1> QED BY <1>1, <1>2 DEF RowStep, Grows, Reviews, Mints

\* What was true for an answer stays true.
LEMMA ToldStays ==
  ASSUME Types, RowsAgree, RowStep
  PROVE  \A a \in SavedType : Told(a) => Told(a)'
<1> SUFFICES ASSUME NEW a \in SavedType, Told(a) PROVE Told(a)'
  OBVIOUS
<1>1. a.op \in Ops
  BY DEF SavedType
<1>2. CASE a.op # "reverse"
  <2>1. /\ a.id \in Contributions /\ a.id \in Contributions'
        /\ contribution'[a.id].body = contribution[a.id].body
        /\ contribution[a.id].status # "pending" => contribution'[a.id] = contribution[a.id]
    BY <1>2, ReviewedStays DEF Told
  <2>2. CASE a.op \in {"create", "approve", "reject"}
    BY <2>1, <2>2 DEF Told, Holds
  <2>3. CASE a.op = "mint"
    <3>1. PICK k \in DOMAIN mint : MintsOf(a.id) = {k} /\ mint[k].amount = a.amount
      BY <2>3 DEF Told, Holds
    <3>2. k \in DOMAIN mint' /\ MintsOf(a.id)' = {k} /\ mint'[k].amount = a.amount
      BY <3>1, MintStays
    <3> QED BY <2>1, <2>3, <3>2 DEF Told, Holds
  <2> QED BY <1>1, <1>2, <2>2, <2>3 DEF Ops
<1>3. CASE a.op = "reverse"
  <2>1. ReversalsOf(a.body.id) = {a.id}
    BY <1>3 DEF Told, Holds
  <2>2. ReversalsOf(a.body.id)' = {a.id}
    BY <2>1, ReversalStays
  <2> QED BY <1>3, <2>2 DEF Told, Holds
<1> QED BY <1>2, <1>3

\* The rows of a request or an answer as they are saved.
LEMMA SavedOf == \A r \in RequestType : Stored(r) \in SavedType
BY DEF Stored, RequestType, SavedType

\* What a request knows stays true.
LEMMA KnowsStays ==
  ASSUME Types, RowsAgree, RowStep, stored \subseteq stored'
  PROVE  \A r \in RequestType : Knows(r) => Knows(r)'
<1> SUFFICES ASSUME NEW r \in RequestType, Knows(r) PROVE Knows(r)'
  OBVIOUS
<1>1. KeyTaken(r) => KeyTaken(r)'
  BY DEF KeyTaken
<1>2. Told(Stored(r)) => Told(Stored(r))'
  BY ToldStays, SavedOf
<1>3. Approved(r.id, r.amount) => Approved(r.id, r.amount)'
  BY ApprovedStays
<1>4. Contributions \subseteq Contributions'
  BY ReviewedStays
<1> QED BY <1>1, <1>2, <1>3, <1>4 DEF Knows

(***************************************************************************)
(* The steps of the handlers.                                              *)
(***************************************************************************)

\* A step of client c: its request becomes x, and x knows what it must.
Continues(c, x) ==
  /\ Put(c, x)
  /\ x = Idle \/ (x \in RequestType /\ Knows(x)')

\* A step that saves no new key and gives no answer.
Quiet == stored' = stored /\ answered' = answered

\* A request that goes on, and the rest of the invariant.
LEMMA ContinuesKeeps ==
  ASSUME RequestInv, RowStep, stored \subseteq stored', NEW c \in Clients, NEW x,
         Continues(c, x)
  PROVE  /\ DOMAIN request' = Clients
         /\ \A d \in Clients : request'[d] = Idle \/ request'[d] \in RequestType
         /\ \A d \in Clients : request'[d] # Idle => Knows(request[d])'
<1>1. DOMAIN request' = Clients /\ request'[c] = x
      /\ \A d \in Clients \ {c} : request'[d] = request[d]
  BY DEF RequestInv, Types, Continues, Put
<1>2. ASSUME NEW d \in Clients \ {c}, request[d] # Idle
      PROVE  Knows(request[d])'
  <2>1. PICK r \in RequestType : r = request[d]
    BY <1>2 DEF RequestInv, Types
  <2>2. Knows(r)
    BY <1>2, <2>1 DEF RequestInv
  <2>3. Knows(r)'
    BY <2>2, KnowsStays DEF RequestInv
  <2>4. request'[d] = r
    BY <1>1, <2>1
  <2> QED BY <2>3, <2>4 DEF Knows, KeyTaken, Stored
<1>3. x # Idle => Knows(request[c])'
  <2>1. x # Idle => Knows(x)'
    BY DEF Continues
  <2> QED BY <1>1, <2>1 DEF Knows, KeyTaken, Stored
<1> QED BY <1>1, <1>2, <1>3 DEF RequestInv, Types, Continues

\* A step that saves no key and answers nothing.
LEMMA QuietStep ==
  ASSUME RequestInv, RowStep, Quiet, NEW c \in Clients, NEW x, Continues(c, x)
  PROVE  RequestInv'
<1>1. Types /\ RowsAgree /\ stored \subseteq SavedType /\ answered \subseteq SavedType
  BY DEF RequestInv, Types
<1>2. \A a \in SavedType : Told(a) => Told(a)'
  BY <1>1, ToldStays
<1>3. RowsAgree' /\ Types'
  BY <1>1, ReviewedStays, MintStays, ReversalStays, ContinuesKeeps DEF Quiet, Types, RowsAgree
<1> QED BY <1>1, <1>2, <1>3, ContinuesKeeps DEF RequestInv, Quiet, KeyTaken
\* A request in a handler's hands.
LEMMA Handled ==
  ASSUME RequestInv, NEW c \in Clients, request[c].op \in Ops
  PROVE  request[c] \in RequestType /\ Knows(request[c])
BY NoneAssumption DEF RequestInv, Types, Idle

\* A request ends.
LEMMA RefusedKeeps ==
  ASSUME RequestInv, NEW c \in Clients, Refuse(c), Quiet,
         UNCHANGED <<contribution, mint, reversal>>
  PROVE  RequestInv'
<1>1. Continues(c, Idle)
  BY DEF Refuse, Continues
<1> QED BY <1>1, QuietStep DEF RowStep

\* A request goes on to a step that is not an answer.
LEMMA WentKeeps ==
  ASSUME RequestInv, NEW c \in Clients, request[c].op \in Ops, NEW at \in {"run", "read"},
         Goto(c, at), Quiet, UNCHANGED <<contribution, mint, reversal>>,
         at = "run" => ~KeyTaken(request[c])
  PROVE  RequestInv'
<1>1. PICK r : r = request[c]
  OBVIOUS
<1>2. r \in RequestType /\ Knows(r)
  BY <1>1, Handled
<1>3. PICK x : x = [r EXCEPT !.at = at]
  OBVIOUS
<1>4. /\ x \in RequestType /\ x.op = r.op /\ x.key = r.key /\ x.body = r.body /\ x.at = at
      /\ x.repeat = r.repeat
  BY <1>2, <1>3 DEF RequestType
<1>5. KeyTaken(x) <=> KeyTaken(r)
  BY <1>4 DEF KeyTaken, SameKey
<1>6. Knows(x)
  BY <1>1, <1>2, <1>4, <1>5 DEF Knows
<1>7. Knows(x)'
  BY <1>4, <1>6, KnowsStays DEF RequestInv, RowStep, Quiet
<1>8. Put(c, x)
  BY <1>1, <1>3 DEF Goto
<1> QED BY <1>4, <1>7, <1>8, QuietStep DEF Continues, RowStep

\* A request is answered, or a mint checked, by what the rows say after the step.
LEMMA AnsweredKeeps ==
  ASSUME RequestInv, RowStep, Quiet, NEW c \in Clients, request[c].op \in Ops,
         NEW at \in {"commit", "save", "answer"}, NEW id \in Nat, NEW amount \in Amount,
         Answer(c, at, id, amount),
         at = "commit" => request[c].op = "mint" /\ Approved(id, amount)',
         at = "save" => request[c].at = "run",
         request[c].op \in Keyed /\ at = "answer" => KeyTaken(request[c]),
         at # "commit" =>
           \A a \in SavedType : a.op = request[c].op /\ a.body = request[c].body /\ a.id = id
                                /\ a.amount = amount => Told(a)'
  PROVE  RequestInv'
<1>1. PICK r : r = request[c]
  OBVIOUS
<1>2. r \in RequestType /\ Knows(r)
  BY <1>1, Handled
<1>3. PICK x : x = [r EXCEPT !.at = at, !.id = id, !.amount = amount]
  OBVIOUS
<1>4. /\ x \in RequestType /\ x.op = r.op /\ x.key = r.key /\ x.body = r.body /\ x.at = at
      /\ x.repeat = r.repeat /\ x.id = id /\ x.amount = amount
  BY <1>2, <1>3 DEF RequestType
<1>5. PICK a : a = Stored(x)
  OBVIOUS
<1>6. a \in SavedType /\ a.op = r.op /\ a.body = r.body /\ a.id = id /\ a.amount = amount
  BY <1>4, <1>5, SavedOf DEF Stored
<1>7. at # "commit" => Told(Stored(x))'
  <2>1. at # "commit" => Told(a)'
    BY <1>1, <1>6
  <2> QED BY <1>5, <2>1
<1>8. KeyTaken(r) => KeyTaken(x)'
  BY <1>4 DEF KeyTaken, SameKey, Quiet
<1>9. Knows(r)'
  BY <1>2, KnowsStays DEF RequestInv, Quiet
<1>10. Knows(x)'
  BY <1>1, <1>2, <1>4, <1>7, <1>8, <1>9 DEF Knows, Keyed
<1>11. Put(c, x)
  BY <1>1, <1>3 DEF Answer
<1> QED BY <1>4, <1>10, <1>11, QuietStep DEF Continues

\* createContribution and the insert of the console's routes.
LEMMA GrowsEffect ==
  ASSUME Types, NEW body \in Bodies,
         contribution' = Append(contribution, NewContribution(body)),
         UNCHANGED <<mint, reversal>>
  PROVE  /\ RowStep
         /\ Len(contribution') \in Nat /\ Len(contribution') \in Contributions'
         /\ contribution'[Len(contribution')].body = body
<1>1. NewContribution(body) \in Row
  BY DEF NewContribution, Row, Amount
<1>2. PICK S, x : S = Row /\ x = NewContribution(body)
  OBVIOUS
<1>3. contribution \in Seq(S) /\ x \in S /\ contribution' = Append(contribution, x)
      /\ x.body = body
  BY <1>1, <1>2 DEF Types, NewContribution
<1>4. RowStep
  BY DEF RowStep, Grows
<1>5. /\ contribution' \in Seq(S) /\ contribution'[Len(contribution) + 1] = x
      /\ Len(contribution') = Len(contribution) + 1
  BY <1>3
<1> QED BY <1>3, <1>4, <1>5 DEF Contributions

LEMMA createContributionKeeps ==
  ASSUME RequestInv, NEW c \in Clients, createContribution(c)
  PROVE  RequestInv'
<1>1. request[c].op = "create" /\ request[c].op \in Ops /\ request[c].at = "run"
  BY DEF createContribution, At, Ops
<1>2. request[c] \in RequestType /\ request[c].body \in Bodies
  BY <1>1, Handled DEF Knows
<1>3. PICK body \in Bodies : body = request[c].body
  BY <1>2
<1>4. /\ RowStep /\ Len(contribution') \in Nat /\ Len(contribution') \in Contributions'
      /\ contribution'[Len(contribution')].body = body
  BY <1>3, GrowsEffect DEF createContribution, RequestInv
<1>5. \A a \in SavedType : a.op = request[c].op /\ a.body = request[c].body
                           /\ a.id = Len(contribution') => Told(a)'
  BY <1>1, <1>3, <1>4 DEF Told, Holds
<1>6. PICK id \in Nat, amount \in Amount : id = Len(contribution') /\ amount = 0
  BY <1>4 DEF Amount
<1>7. Answer(c, "save", id, amount) /\ Quiet
  BY <1>6 DEF createContribution, Quiet
<1> QED BY ONLY RequestInv, c \in Clients, <1>1, <1>4, <1>5, <1>6, <1>7, AnsweredKeeps

LEMMA createInConsoleKeeps ==
  ASSUME RequestInv, createInConsole
  PROVE  RequestInv'
<1>1. PICK body \in Bodies : contribution' = Append(contribution, NewContribution(body))
  BY DEF createInConsole
<1>2. RowStep
  BY <1>1, GrowsEffect DEF createInConsole, RequestInv
<1>3. Types /\ RowsAgree
  BY DEF RequestInv
<1>4. Types' /\ RowsAgree'
  BY <1>2, <1>3, ReviewedStays, MintStays, ReversalStays DEF createInConsole, Types, RowsAgree
<1>5. \A a \in SavedType : Told(a) => Told(a)'
  BY <1>2, <1>3, ToldStays
<1>6. \A r \in RequestType : Knows(r) => Knows(r)'
  BY <1>2, <1>3, KnowsStays DEF createInConsole
<1>7. ASSUME NEW d \in Clients, request'[d] # Idle
      PROVE  Knows(request[d])'
  <2>1. PICK r \in RequestType : r = request[d] /\ Knows(r)
    BY <1>7 DEF RequestInv, Types, createInConsole
  <2>2. Knows(r)' /\ r = request'[d]
    BY <1>6, <2>1 DEF createInConsole
  <2> QED BY <2>2 DEF Knows, KeyTaken, Stored
<1> QED BY <1>3, <1>4, <1>5, <1>7 DEF RequestInv, createInConsole, Types, KeyTaken
(***************************************************************************)
(* lib/api/core/idempotency                                                *)
(***************************************************************************)

LEMMA findKeeps ==
  ASSUME RequestInv, NEW c \in Clients, find(c)
  PROVE  RequestInv'
<1>1. request[c].op \in Keyed /\ request[c].op \in Ops /\ Quiet /\ RowStep
      /\ UNCHANGED <<contribution, mint, reversal>>
  BY DEF find, Keyed, Ops, Quiet, RowStep
<1>2. CASE (\A s \in stored : ~SameKey(s, request[c])) /\ Goto(c, "run")
  <2>1. ~KeyTaken(request[c])
    BY <1>2 DEF KeyTaken
  <2> QED BY <1>1, <1>2, <2>1, WentKeeps
<1>3. ASSUME NEW s \in stored, SameKey(s, request[c]), s.body = request[c].body,
             Answer(c, "answer", s.id, s.amount)
      PROVE  RequestInv'
  <2>1. s \in SavedType /\ Told(s) /\ s.op = request[c].op
    BY <1>3 DEF RequestInv, Types, SameKey
  <2>2. Told(s)'
    BY <1>1, <2>1, ToldStays DEF RequestInv
  <2>3. \A a \in SavedType : a.op = request[c].op /\ a.body = request[c].body /\ a.id = s.id
                             /\ a.amount = s.amount => Told(a)'
    BY <1>3, <2>1, <2>2, ZenonT(60) DEF Told, Holds
  <2>4. KeyTaken(request[c])
    BY <1>3 DEF KeyTaken
  <2>5. PICK id \in Nat, amount \in Amount : id = s.id /\ amount = s.amount
    BY <2>1 DEF SavedType
  <2> QED BY ONLY RequestInv, c \in Clients, <1>1, <1>3, <2>3, <2>4, <2>5, AnsweredKeeps
<1>4. CASE Refuse(c)
  BY <1>1, <1>4, RefusedKeeps
<1> QED BY <1>2, <1>3, <1>4 DEF find

\* A saved key: the first insert wins, whatever it answered.
LEMMA saveKeeps ==
  ASSUME RequestInv, NEW c \in Clients, save(c)
  PROVE  RequestInv'
<1>1. PICK r : r = request[c]
  OBVIOUS
<1>2. r.op \in Keyed /\ r.op \in Ops /\ r.at = "save" /\ RowStep /\ Types /\ RowsAgree
  BY <1>1 DEF save, Keyed, Ops, RowStep, RequestInv
<1>3. r \in RequestType /\ Knows(r)
  BY <1>1, <1>2, Handled
<1>4. Stored(r) \in SavedType /\ Told(Stored(r))
  BY <1>2, <1>3, SavedOf DEF Knows
<1>5. stored' = Saved(r) /\ stored \subseteq stored' /\ stored' \subseteq stored \cup {Stored(r)}
  BY <1>1 DEF save, Saved
<1>6. KeyTaken(r)'
  BY <1>5 DEF KeyTaken, Saved, SameKey, Stored
<1>7. PICK x : x = [r EXCEPT !.at = "answer"]
  OBVIOUS
<1>8. /\ x \in RequestType /\ x.op = r.op /\ x.key = r.key /\ x.body = r.body /\ x.at = "answer"
      /\ x.repeat = r.repeat /\ x.id = r.id /\ x.amount = r.amount
  BY <1>3, <1>7 DEF RequestType
<1>9. Stored(x) = Stored(r)
  BY <1>8 DEF Stored
<1>10. Knows(x)'
  <2>1. Knows(r)'
    BY <1>2, <1>3, <1>5, KnowsStays
  <2>2. KeyTaken(x)'
    BY <1>6, <1>8 DEF KeyTaken, SameKey
  <2> QED BY <1>2, <1>8, <1>9, <2>1, <2>2 DEF Knows
<1>11. Continues(c, x)
  BY <1>1, <1>7, <1>8, <1>10 DEF save, Goto, Continues
<1>12. \A a \in SavedType : Told(a) => Told(a)'
  BY <1>2, ToldStays
<1>13. Types' /\ RowsAgree'
  BY <1>2, <1>4, <1>5, <1>11, ContinuesKeeps, ReviewedStays, MintStays, ReversalStays
  DEF save, Types, RowsAgree
<1>14. \A s \in stored' : Told(s)'
  BY <1>2, <1>4, <1>5, <1>12 DEF RequestInv, Types
<1>15. \A a \in answered' : Told(a)' /\ (a.op \in Keyed => KeyTaken(a)')
  BY <1>2, <1>5, <1>12 DEF RequestInv, Types, save, KeyTaken
<1>16. \A d \in Clients : request'[d] # Idle => Knows(request[d])'
  BY <1>2, <1>5, <1>11, ContinuesKeeps
<1> QED BY <1>13, <1>14, <1>15, <1>16 DEF RequestInv

LEMMA respondKeeps ==
  ASSUME RequestInv, NEW c \in Clients, respond(c)
  PROVE  RequestInv'
<1>1. PICK r : r = request[c]
  OBVIOUS
<1>2. r # Idle /\ r.at = "answer" /\ RowStep /\ Types /\ RowsAgree /\ stored' = stored
  BY <1>1 DEF respond, RowStep, RequestInv
<1>3. r \in RequestType /\ Knows(r)
  BY <1>1, <1>2 DEF RequestInv, Types
<1>4. Stored(r) \in SavedType /\ Told(Stored(r))
  BY <1>2, <1>3, SavedOf DEF Knows
<1>5. Stored(r).op \in Keyed => KeyTaken(Stored(r))
  BY <1>2, <1>3 DEF Knows, KeyTaken, SameKey, Stored
<1>6. answered' = answered \cup {Stored(r)}
  BY <1>1 DEF respond
<1>7. Continues(c, Idle)
  BY DEF respond, Refuse, Continues
<1>8. \A a \in SavedType : Told(a) => Told(a)'
  BY <1>2, ToldStays
<1>9. Types' /\ RowsAgree'
  BY <1>2, <1>4, <1>6, <1>7, ContinuesKeeps, ReviewedStays, MintStays, ReversalStays
  DEF respond, Types, RowsAgree
<1>10. \A s \in stored' : Told(s)'
  BY <1>2, <1>8 DEF RequestInv, Types
<1>11. \A a \in answered' : Told(a)' /\ (a.op \in Keyed => KeyTaken(a)')
  BY <1>2, <1>4, <1>5, <1>6, <1>8 DEF RequestInv, Types, KeyTaken
<1>12. \A d \in Clients : request'[d] # Idle => Knows(request[d])'
  BY <1>2, <1>7, ContinuesKeeps
<1> QED BY <1>9, <1>10, <1>11, <1>12 DEF RequestInv

(***************************************************************************)
(* lib/api/contributions                                                   *)
(***************************************************************************)

\* A conditional update of a contribution, or a second read when it changed nothing.
LEMMA reviewKeeps ==
  ASSUME RequestInv, NEW c \in Clients, NEW op \in {"approve", "reject"}, NEW reviewed,
         review(c, op, reviewed),
         reviewed.body = contribution[request[c].body.id].body,
         Named(c) \in Row => reviewed \in Row,
         \/ op = "approve" /\ reviewed.status = "approved" /\ reviewed.amount = request[c].body.amount
         \/ op = "reject" /\ reviewed.status = "rejected"
  PROVE  RequestInv'
<1>1. request[c].op = op /\ request[c].op \in Ops /\ op \notin Keyed /\ Quiet
      /\ UNCHANGED <<mint, reversal>>
  BY DEF review, At, Ops, Keyed, Quiet
<1>2. request[c].body \in Target /\ request[c].body.id \in Contributions
  BY <1>1, Handled DEF Knows
<1>3. PICK id : id = request[c].body.id
  OBVIOUS
<1>4. CASE Reviewable(id)
  <2>1. contribution' = [contribution EXCEPT ![id] = reviewed]
        /\ Answer(c, "answer", id, request[c].body.amount)
    BY <1>3, <1>4 DEF review
  <2>2. contribution[id] \in Row /\ reviewed \in Row /\ id \in Contributions
    BY <1>2, <1>3 DEF RequestInv, Types, Contributions, Named
  <2>3. RowStep
    BY <1>1, <1>3, <1>4, <2>1, <2>2 DEF RowStep, Reviews, Reviewable
  <2>4. id \in Contributions' /\ contribution'[id] = reviewed
    BY <2>1, <2>2 DEF RequestInv, Types, Contributions
  <2>5. \A a \in SavedType : a.op = request[c].op /\ a.body = request[c].body /\ a.id = id
                             /\ a.amount = request[c].body.amount => Told(a)'
    BY <1>1, <2>4 DEF Told, Holds
  <2>6. PICK amount \in Amount, n \in Nat : amount = request[c].body.amount /\ n = id
    BY <1>2, <1>3 DEF Target
  <2> QED BY ONLY RequestInv, c \in Clients, <1>1, <2>1, <2>3, <2>5, <2>6, AnsweredKeeps
<1>5. CASE ~Reviewable(id)
  <2>1. Goto(c, "read") /\ UNCHANGED contribution
    BY <1>3, <1>5 DEF review
  <2> QED BY <1>1, <2>1, WentKeeps
<1> QED BY <1>4, <1>5

LEMMA approveKeeps ==
  ASSUME RequestInv, NEW c \in Clients, approveIfPending(c) \/ rejectIfPending(c)
  PROVE  RequestInv'
<1>1. request[c].op \in Ops /\ request[c].op \in {"approve", "reject"}
  BY DEF approveIfPending, rejectIfPending, review, At, Ops
<1>2. request[c].body \in Target /\ request[c].body.id \in Contributions
  BY <1>1, Handled DEF Knows
<1>3. Named(c) \in Row /\ Named(c) = contribution[request[c].body.id]
  BY <1>2 DEF RequestInv, Types, Contributions, Named
<1>4. CASE approveIfPending(c)
  <2>1. PICK new : new = [Named(c) EXCEPT !.status = "approved", !.amount = request[c].body.amount]
    OBVIOUS
  <2>2. new \in Row /\ new.body = Named(c).body /\ new.status = "approved"
        /\ new.amount = request[c].body.amount
    BY <1>2, <1>3, <2>1 DEF Row, Target
  <2>3. review(c, "approve", new)
    BY <1>4, <2>1 DEF approveIfPending
  <2> QED BY <1>3, <2>2, <2>3, reviewKeeps
<1>5. CASE rejectIfPending(c)
  <2>1. PICK new : new = [Named(c) EXCEPT !.status = "rejected"]
    OBVIOUS
  <2>2. new \in Row /\ new.body = Named(c).body /\ new.status = "rejected"
    BY <1>2, <1>3, <2>1 DEF Row, Target
  <2>3. review(c, "reject", new)
    BY <1>5, <2>1 DEF rejectIfPending
  <2> QED BY <1>3, <2>2, <2>3, reviewKeeps
<1> QED BY <1>4, <1>5

LEMMA readReviewKeeps ==
  ASSUME RequestInv, NEW c \in Clients, readReview(c)
  PROVE  RequestInv'
<1>1. PICK op \in {"approve", "reject"}, status \in {"approved", "rejected"} :
        /\ readReviewed(c, op, status)
        /\ op = "approve" => status = "approved"
        /\ op = "reject" => status = "rejected"
  BY DEF readReview
<1>2. request[c].op = op /\ request[c].op \in Ops /\ op \notin Keyed /\ Quiet /\ RowStep
      /\ UNCHANGED <<contribution, mint, reversal>>
  BY <1>1 DEF readReviewed, At, Ops, Keyed, Quiet, RowStep
<1>3. request[c].body \in Target /\ request[c].body.id \in Contributions
  BY <1>2, Handled DEF Knows
<1>4. PICK id : id = request[c].body.id
  OBVIOUS
<1>5. CASE contribution[id].status = status /\ Answer(c, "answer", id, contribution[id].amount)
  <2>1. contribution[id] \in Row
    BY <1>3, <1>4 DEF RequestInv, Types, Contributions
  <2>2. \A a \in SavedType : a.op = request[c].op /\ a.body = request[c].body /\ a.id = id
                             /\ a.amount = contribution[id].amount => Told(a)'
    BY <1>1, <1>2, <1>3, <1>4, <1>5 DEF Told, Holds, Contributions
  <2>3. PICK amount \in Amount, n \in Nat : amount = contribution[id].amount /\ n = id
    BY <1>3, <1>4, <2>1 DEF Row, Target
  <2> QED BY ONLY RequestInv, c \in Clients, <1>2, <1>5, <2>2, <2>3, AnsweredKeeps
<1>6. CASE Refuse(c)
  BY <1>2, <1>6, RefusedKeeps
<1> QED BY <1>1, <1>4, <1>5, <1>6 DEF readReviewed

LEMMA readForMintKeeps ==
  ASSUME RequestInv, NEW c \in Clients, readForMint(c)
  PROVE  RequestInv'
<1>1. request[c].op = "mint" /\ request[c].op \in Ops /\ request[c].op \notin Keyed /\ Quiet
      /\ RowStep /\ UNCHANGED <<contribution, mint, reversal>>
  BY DEF readForMint, At, Ops, Keyed, Quiet, RowStep
<1>2. request[c].body \in Target /\ request[c].body.id \in Contributions
  BY <1>1, Handled DEF Knows
<1>3. PICK id : id = request[c].body.id
  OBVIOUS
<1>4. CASE contribution[id].status = "approved" /\ Answer(c, "commit", id, contribution[id].amount)
  <2>1. contribution[id] \in Row
    BY <1>2, <1>3 DEF RequestInv, Types, Contributions
  <2>2. PICK amount \in Amount, n \in Nat : amount = contribution[id].amount /\ n = id
    BY <1>2, <1>3, <2>1 DEF Row, Target
  <2>3. Approved(n, amount)'
    BY <1>1, <1>2, <1>3, <1>4, <2>2 DEF Approved, Contributions
  <2>4. Answer(c, "commit", n, amount)
    BY <1>4, <2>2
  <2> QED BY ONLY RequestInv, c \in Clients, <1>1, <2>2, <2>3, <2>4, AnsweredKeeps
<1>5. CASE Refuse(c)
  BY <1>1, <1>5, RefusedKeeps
<1>6. CASE Goto(c, "read")
  BY <1>1, <1>6, WentKeeps
<1> QED BY <1>3, <1>4, <1>5, <1>6 DEF readForMint
LEMMA commitMintKeeps ==
  ASSUME RequestInv, NEW c \in Clients, commitMint(c)
  PROVE  RequestInv'
<1>1. PICK r : r = request[c]
  OBVIOUS
<1>2. r.op = "mint" /\ r.op \in Ops /\ r.op \notin Keyed /\ r.at = "commit" /\ Quiet
      /\ UNCHANGED <<contribution, reversal>>
  BY <1>1 DEF commitMint, At, Ops, Keyed, Quiet
<1>3. r \in RequestType /\ Approved(r.id, r.amount)
  BY <1>1, <1>2, Handled DEF Knows
<1>4. CASE Refuse(c) /\ UNCHANGED mint
  BY <1>2, <1>4, RefusedKeeps
<1>5. CASE Goto(c, "read") /\ UNCHANGED mint
  BY <1>1, <1>2, <1>5, WentKeeps
<1>6. CASE /\ MintsOf(r.id) = {}
           /\ mint' = Append(mint, [contribution |-> r.id, amount |-> r.amount])
           /\ Answer(c, "answer", r.id, r.amount)
  <2>1. PICK id \in Nat, amount \in Amount : id = r.id /\ amount = r.amount
    BY <1>3 DEF RequestType
  <2>2. RowStep
    BY <1>2, <1>3, <1>6, <2>1 DEF RowStep, Mints, Approved
  <2>3. PICK S, x : S = [contribution : Nat, amount : Amount]
                    /\ x = [contribution |-> id, amount |-> amount]
    OBVIOUS
  <2>4. mint \in Seq(S) /\ x \in S /\ mint' = Append(mint, x) /\ x.contribution = id
        /\ x.amount = amount
    BY <1>6, <2>1, <2>3 DEF RequestInv, Types
  <2>5. /\ DOMAIN mint' = DOMAIN mint \cup {Len(mint) + 1}
        /\ mint'[Len(mint) + 1] = x
        /\ \A k \in DOMAIN mint : mint'[k] = mint[k]
    BY <2>4, Appended
  <2>6. \A k \in DOMAIN mint : mint[k].contribution # id
    BY <1>6, <2>1 DEF MintsOf
  <2>7. MintsOf(id)' = {Len(mint) + 1}
    BY <2>4, <2>5, <2>6 DEF MintsOf
  <2>8. Approved(id, amount)'
    BY <1>2, <1>3, <2>1 DEF Approved, Contributions
  <2>9. \A a \in SavedType : a.op = request[c].op /\ a.body = request[c].body /\ a.id = id
                             /\ a.amount = amount => Told(a)'
    BY <1>1, <1>2, <2>4, <2>5, <2>7, <2>8, ZenonT(60) DEF Told, Holds, Approved
  <2>10. Answer(c, "answer", id, amount) /\ request[c].op \in Ops /\ request[c].op \notin Keyed
    BY <1>1, <1>2, <1>6, <2>1
  <2> QED BY ONLY RequestInv, c \in Clients, <1>2, <2>1, <2>2, <2>9, <2>10, AnsweredKeeps
<1> QED BY <1>1, <1>4, <1>5, <1>6 DEF commitMint

LEMMA findCurrentEpochMintEventsKeeps ==
  ASSUME RequestInv, NEW c \in Clients, findCurrentEpochMintEvents(c)
  PROVE  RequestInv'
<1>1. request[c].op = "mint" /\ request[c].op \in Ops /\ request[c].op \notin Keyed /\ Quiet
      /\ RowStep /\ UNCHANGED <<contribution, mint, reversal>>
  BY DEF findCurrentEpochMintEvents, At, Ops, Keyed, Quiet, RowStep
<1>2. PICK k \in MintsOf(request[c].body.id) :
        Answer(c, "answer", mint[k].contribution, mint[k].amount)
  BY DEF findCurrentEpochMintEvents
<1>3. k \in DOMAIN mint /\ mint[k] \in [contribution : Nat, amount : Amount]
  <2>1. PICK S : S = [contribution : Nat, amount : Amount]
    OBVIOUS
  <2>2. mint \in Seq(S) /\ k \in DOMAIN mint
    BY <2>1 DEF MintsOf, RequestInv, Types
  <2>3. \A T, seq, j : seq \in Seq(T) /\ j \in DOMAIN seq => seq[j] \in T
    OBVIOUS
  <2>4. mint[k] \in S
    BY ONLY <2>2, <2>3
  <2> QED BY <2>1, <2>2, <2>4
<1>4. PICK id \in Nat, amount \in Amount : id = mint[k].contribution /\ amount = mint[k].amount
  BY <1>3
<1>5. Approved(id, amount) /\ MintsOf(id) = {k}
  BY <1>3, <1>4 DEF RequestInv, RowsAgree, MintsOf
<1>6. \A a \in SavedType : a.op = request[c].op /\ a.body = request[c].body /\ a.id = id
                           /\ a.amount = amount => Told(a)'
  BY <1>1, <1>3, <1>4, <1>5 DEF Told, Holds, Approved, Contributions, MintsOf
<1>7. Answer(c, "answer", id, amount)
  BY <1>2, <1>4
<1> QED BY ONLY RequestInv, c \in Clients, <1>1, <1>4, <1>6, <1>7, AnsweredKeeps

(***************************************************************************)
(* lib/api/token-reverse                                                   *)
(***************************************************************************)

LEMMA reverseMintKeeps ==
  ASSUME RequestInv, NEW c \in Clients, reverseMint(c)
  PROVE  RequestInv'
<1>1. request[c].op = "reverse" /\ request[c].op \in Ops /\ request[c].at = "run" /\ Quiet
      /\ UNCHANGED <<contribution, mint>>
  BY DEF reverseMint, At, Ops, Quiet
<1>2. request[c].body \in Target
  BY <1>1, Handled DEF Knows
<1>3. PICK k \in Nat, amount \in Amount : k = request[c].body.id /\ amount = request[c].body.amount
  BY <1>2 DEF Target
<1>4. CASE /\ ReversalsOf(k) # {} /\ UNCHANGED reversal
           /\ Answer(c, "save", findExistingReversal(k), 0)
  <2>1. PICK j : j = findExistingReversal(k) /\ j \in ReversalsOf(k)
    BY <1>4 DEF findExistingReversal
  <2>2. ReversalsOf(k) = {j} /\ j \in Nat
    BY <2>1 DEF ReversalsOf, RequestInv, RowsAgree, Types
  <2>3. RowStep
    BY <1>1, <1>4 DEF RowStep
  <2>4. ReversalsOf(k)' = {j}
    BY <1>4, <2>2 DEF ReversalsOf
  <2>5. PICK id \in Nat, zero \in Amount : id = j /\ zero = 0
    BY <2>2 DEF Amount
  <2>6. \A a \in SavedType : a.op = request[c].op /\ a.body = request[c].body /\ a.id = id
                             /\ a.amount = zero => Told(a)'
    BY <1>1, <1>3, <2>4, <2>5 DEF Told, Holds
  <2>7. Answer(c, "save", id, zero)
    BY <1>4, <2>1, <2>5
  <2> QED BY ONLY RequestInv, c \in Clients, <1>1, <2>3, <2>5, <2>6, <2>7, AnsweredKeeps
<1>5. CASE /\ ReversalsOf(k) = {}
           /\ reversal' = Append(reversal, [mint |-> k, amount |-> amount])
           /\ Answer(c, "save", Len(reversal'), 0)
  <2>1. RowStep
    BY <1>1, <1>3, <1>5 DEF RowStep, Reverses
  <2>2. PICK S, x : S = [mint : Nat, amount : Amount] /\ x = [mint |-> k, amount |-> amount]
    OBVIOUS
  <2>3. reversal \in Seq(S) /\ x \in S /\ reversal' = Append(reversal, x) /\ x.mint = k
    BY <1>5, <2>2 DEF RequestInv, Types
  <2>4. /\ DOMAIN reversal' = DOMAIN reversal \cup {Len(reversal) + 1}
        /\ reversal'[Len(reversal) + 1] = x
        /\ \A j \in DOMAIN reversal : reversal'[j] = reversal[j]
        /\ Len(reversal') = Len(reversal) + 1 /\ Len(reversal') \in Nat
    BY <2>3, Appended
  <2>5. ReversalsOf(k)' = {Len(reversal')}
    BY <1>5, <2>3, <2>4 DEF ReversalsOf
  <2>6. PICK id \in Nat, zero \in Amount : id = Len(reversal') /\ zero = 0
    BY <2>4 DEF Amount
  <2>7. \A a \in SavedType : a.op = request[c].op /\ a.body = request[c].body /\ a.id = id
                             /\ a.amount = zero => Told(a)'
    BY <1>1, <1>3, <2>5, <2>6 DEF Told, Holds
  <2>8. Answer(c, "save", id, zero)
    BY <1>5, <2>6
  <2> QED BY ONLY RequestInv, c \in Clients, <1>1, <2>1, <2>6, <2>7, <2>8, AnsweredKeeps
<1>6. CASE Refuse(c) /\ UNCHANGED reversal
  BY <1>1, <1>6, RefusedKeeps
<1> QED BY <1>3, <1>4, <1>5, <1>6 DEF reverseMint

(***************************************************************************)
(* Clients.                                                                *)
(***************************************************************************)

\* A request as it is sent.
LEMMA BeginKeeps ==
  ASSUME RequestInv, NEW c \in Clients, Quiet, UNCHANGED <<contribution, mint, reversal>>,
         NEW op \in Ops, NEW key \in Keys \cup {None}, NEW body \in Bodies \cup Target,
         Begin(c, op, key, body),
         op = "create" => body \in Bodies,
         op # "create" => body \in Target,
         op \in {"approve", "reject", "mint"} => body.id \in Contributions
  PROVE  RequestInv'
<1>1. PICK again \in BOOLEAN : again = (op \in Keyed /\ Repeats(op, key, body))
  OBVIOUS
<1>2. PICK x : x = [op |-> op, key |-> key, body |-> body, at |-> "start", id |-> 0,
                    amount |-> 0, repeat |-> again]
  OBVIOUS
<1>3. x \in RequestType /\ x.op = op /\ x.key = key /\ x.body = body /\ x.at = "start"
      /\ x.repeat = again
  BY <1>2 DEF RequestType, Amount
<1>4. again => op \in Keyed /\ KeyTaken(x)
  BY <1>1, <1>3 DEF Repeats, RequestInv, KeyTaken, SameKey
<1>5. Knows(x)
  BY <1>3, <1>4 DEF Knows, Keyed
<1>6. Knows(x)'
  BY <1>3, <1>5, KnowsStays DEF RequestInv, RowStep, Quiet
<1>7. Put(c, x)
  BY <1>1, <1>2 DEF Begin
<1> QED BY <1>3, <1>6, <1>7, QuietStep DEF Continues, RowStep

LEMMA sendKeeps ==
  ASSUME RequestInv, NEW c \in Clients, send(c)
  PROVE  RequestInv'
<1>1. Quiet /\ UNCHANGED <<contribution, mint, reversal>>
  BY DEF send, Quiet
<1>2. ASSUME NEW key \in Keys, NEW body \in Bodies, Begin(c, "create", key, body)
      PROVE  RequestInv'
  BY <1>1, <1>2, BeginKeeps DEF Ops
<1>3. ASSUME NEW key \in Keys, NEW k \in DOMAIN mint, NEW amount \in Amounts,
             Begin(c, "reverse", key, [id |-> k, amount |-> amount])
      PROVE  RequestInv'
  <2>1. [id |-> k, amount |-> amount] \in Target
    BY DEF Target, Amount, RequestInv, Types
  <2> QED BY <1>1, <1>3, <2>1, BeginKeeps DEF Ops
<1>4. ASSUME NEW id \in Contributions, NEW op \in {"approve", "reject", "mint"}, NEW amount \in Amount,
             Begin(c, op, None, [id |-> id, amount |-> amount])
      PROVE  RequestInv'
  <2>1. PICK body : body = [id |-> id, amount |-> amount]
    OBVIOUS
  <2>2. body \in Target /\ body.id \in Contributions
    BY <2>1 DEF Target, RequestInv, Types, Contributions
  <2>3. op \in Ops /\ Begin(c, op, None, body)
    BY <1>4, <2>1 DEF Ops
  <2> QED BY <1>1, <2>2, <2>3, BeginKeeps
<1> QED BY <1>2, <1>3, <1>4 DEF send, Amount

LEMMA loseKeeps ==
  ASSUME RequestInv, NEW c \in Clients, lose(c)
  PROVE  RequestInv'
BY RefusedKeeps DEF lose, Quiet

(***************************************************************************)
(* The theorems.                                                           *)
(***************************************************************************)

LEMMA InitKeeps == Init => RequestInv
BY DEF Init, RequestInv, Types, RowsAgree, Idle

LEMMA StutterKeeps ==
  ASSUME RequestInv, UNCHANGED vars
  PROVE  RequestInv'
<1>1. Types /\ RowsAgree /\ RowStep /\ UNCHANGED vars
  BY DEF RequestInv, RowStep, vars
<1>2. Types' /\ RowsAgree'
  BY <1>1, ReviewedStays, MintStays, ReversalStays DEF vars, Types, RowsAgree
<1>3. \A a \in SavedType : Told(a) => Told(a)'
  BY <1>1, ToldStays
<1>4. ASSUME NEW d \in Clients, request'[d] # Idle
      PROVE  Knows(request[d])'
  <2>1. PICK r \in RequestType : r = request[d] /\ Knows(r)
    BY <1>4 DEF RequestInv, Types, vars
  <2>2. Knows(r)' /\ r = request'[d]
    BY <1>1, <2>1, KnowsStays DEF vars
  <2> QED BY <2>2 DEF Knows, KeyTaken, Stored
<1> QED BY <1>1, <1>2, <1>3, <1>4 DEF RequestInv, vars, Types, KeyTaken

LEMMA NextKeeps ==
  ASSUME RequestInv, [Next]_vars
  PROVE  RequestInv'
<1>1. CASE UNCHANGED vars
  BY <1>1, StutterKeeps
<1> QED
  BY <1>1, createInConsoleKeeps, sendKeeps, findKeeps, saveKeeps, respondKeeps,
     createContributionKeeps, approveKeeps, readReviewKeeps, readForMintKeeps, commitMintKeeps,
     findCurrentEpochMintEventsKeeps, reverseMintKeeps, loseKeeps
  DEF Next

\* What a request still knows wherever it stands, and what the rows say of each other.
THEOREM RequestInvHolds == Spec => []RequestInv
BY InitKeeps, NextKeeps, PTL DEF Spec

\* What a client was told stays true, whoever reviewed, minted, reversed or reused the
\* key meanwhile, for any number of overlapping and lost requests.
THEOREM AnswersStayTrue == Spec => []AnswersHold
<1>1. RequestInv => AnswersHold
  BY DEF RequestInv, AnswersHold, Told
<1> QED BY <1>1, RequestInvHolds, PTL

\* A request repeated under its key after an answer never reaches its handler: the key
\* was saved before the answer was given.
THEOREM RepeatsAreReplayed == Spec => []RepeatsReplay
<1>1. RequestInv => RepeatsReplay
  BY DEF RequestInv, RepeatsReplay, Knows
<1> QED BY <1>1, RequestInvHolds, PTL
=============================================================================
