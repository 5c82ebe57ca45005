------------------------------ MODULE Requests ------------------------------
(* The HTTP API around a contribution: clients submit it, approve, reject and *)
(* mint it and reverse the mint, at the same time, twice, with a key or       *)
(* without, while invocations die between two statements.  A mint here stays  *)
(* within the regular budget; EngineLedger has the splits.                    *)
EXTENDS Integers, FiniteSets, SequencesExt

CONSTANTS
  Clients,
  Keys,               \* Idempotency-Key headers
  Bodies,             \* bodies of a submission
  Amounts,            \* amounts an admin approves or reverses
  Budget,             \* the epoch's regular budget
  MaxContributions,   \* bound on the rows of Contribution
  MaxAnswers,         \* bound on the successful answers given and not lost
  None

Ops == {"create", "approve", "reject", "mint", "reverse"}

ASSUME NoneAssumption == None \notin Ops

VARIABLES
  contribution,  \* Contribution rows, by id: body, status and approved amount
  mint,          \* TokenMintEvent rows, by id: contribution and amount
  reversal,      \* TokenReversalEvent rows, by id: mint and amount
  stored,        \* IdempotencyKey rows
  request,       \* the request each client waits for
  answered       \* every 2xx answer given so far

vars == <<contribution, mint, reversal, stored, request, answered>>

Idle == [op |-> None]
Keyed == {"create", "reverse"}

Put(c, r) == request' = [request EXCEPT ![c] = r]
Goto(c, at) == Put(c, [request[c] EXCEPT !.at = at])
Refuse(c) == Put(c, Idle)

\* A 2xx answer names a row and an amount.
Answer(c, at, id, amount) == Put(c, [request[c] EXCEPT !.at = at, !.id = id, !.amount = amount])

At(c, op, at) == request[c].op = op /\ request[c].at = at

Contributions == DOMAIN contribution
MintsOf(id) == {k \in DOMAIN mint : mint[k].contribution = id}
ReversalsOf(k) == {r \in DOMAIN reversal : reversal[r].mint = k}

RegularMinted == FoldLeft(LAMBDA sum, row : sum + row.amount, 0, mint)

-----------------------------------------------------------------------------
(* lib/api/core/idempotency *)

SameKey(a, r) == a.op = r.op /\ a.key = r.key

\* A repeat is sent after an answer to the same request under the same key.
Repeats(op, key, body) == \E a \in answered : a.op = op /\ a.key = key /\ a.body = body

Begin(c, op, key, body) ==
  Put(c, [op |-> op, key |-> key, body |-> body, at |-> "start", id |-> 0, amount |-> 0,
          repeat |-> op \in Keyed /\ Repeats(op, key, body)])

find(c) ==
  /\ request[c].op \in Keyed
  /\ request[c].at = "start"
  /\ \/ /\ \A s \in stored : ~SameKey(s, request[c])
        /\ Goto(c, "run")
     \/ \E s \in stored :
          /\ SameKey(s, request[c])
          /\ IF s.body = request[c].body THEN Answer(c, "answer", s.id, s.amount) ELSE Refuse(c)
  /\ UNCHANGED <<contribution, mint, reversal, stored, answered>>

Stored(r) == [op |-> r.op, key |-> r.key, body |-> r.body, id |-> r.id, amount |-> r.amount]

\* Mutant: 201 is no success.
SavedIf200(r) == IF r.op = "create" THEN stored ELSE stored \cup {Stored(r)}

\* The first insert of a key wins; a later one is taken for a success.
Saved(r) == IF \E s \in stored : SameKey(s, r) THEN stored ELSE stored \cup {Stored(r)}

save(c) ==
  /\ request[c].op \in Keyed
  /\ request[c].at = "save"
  /\ stored' = Saved(request[c])
  /\ Goto(c, "answer")
  /\ UNCHANGED <<contribution, mint, reversal, answered>>

respond(c) ==
  /\ request[c] # Idle
  /\ request[c].at = "answer"
  /\ answered' = answered \cup {Stored(request[c])}
  /\ Refuse(c)
  /\ UNCHANGED <<contribution, mint, reversal, stored>>

-----------------------------------------------------------------------------
(* lib/api/contributions *)

NewContribution(body) == [body |-> body, status |-> "pending", amount |-> 0]

createContribution(c) ==
  /\ At(c, "create", "run")
  /\ Len(contribution) < MaxContributions
  /\ contribution' = Append(contribution, NewContribution(request[c].body))
  /\ Answer(c, "save", Len(contribution'), 0)
  /\ UNCHANGED <<mint, reversal, stored, answered>>

\* The console's routes insert without a key.
createInConsole ==
  /\ Len(contribution) < MaxContributions
  /\ \E body \in Bodies : contribution' = Append(contribution, NewContribution(body))
  /\ UNCHANGED <<mint, reversal, stored, request, answered>>

\* Mutant: any contribution can be reviewed.
ReviewableAlways(id) == TRUE

Reviewable(id) == contribution[id].status = "pending"

\* The contribution a request is about.
Named(c) == contribution[request[c].body.id]

\* Both updates name the status they expect; with no row updated the handler reads again.
review(c, op, reviewed) ==
  /\ At(c, op, "start")
  /\ LET id == request[c].body.id IN
     IF Reviewable(id)
     THEN /\ contribution' = [contribution EXCEPT ![id] = reviewed]
          /\ Answer(c, "answer", id, request[c].body.amount)
     ELSE Goto(c, "read") /\ UNCHANGED contribution
  /\ UNCHANGED <<mint, reversal, stored, answered>>

approveIfPending(c) ==
  review(c, "approve", [Named(c) EXCEPT !.status = "approved", !.amount = request[c].body.amount])

rejectIfPending(c) == review(c, "reject", [Named(c) EXCEPT !.status = "rejected"])

readReviewed(c, op, status) ==
  /\ At(c, op, "read")
  /\ LET id == request[c].body.id IN
     IF contribution[id].status = status THEN Answer(c, "answer", id, contribution[id].amount) ELSE Refuse(c)
  /\ UNCHANGED <<contribution, mint, reversal, stored, answered>>

readReview(c) == readReviewed(c, "approve", "approved") \/ readReviewed(c, "reject", "rejected")

\* mintForContribution reads the contribution and its mints before it has a lock.
readForMint(c) ==
  /\ At(c, "mint", "start")
  /\ LET id == request[c].body.id IN
     CASE contribution[id].status # "approved" -> Refuse(c)
       [] MintsOf(id) # {} -> Goto(c, "read")
       [] OTHER -> Answer(c, "commit", id, contribution[id].amount)
  /\ UNCHANGED <<contribution, mint, reversal, stored, answered>>

\* The budget is checked under the epoch's lock; the unique key finds a mint made meanwhile.
commitMint(c) ==
  /\ At(c, "mint", "commit")
  /\ LET id == request[c].id
         amount == request[c].amount
     IN \/ /\ amount <= 0 \/ RegularMinted + amount > Budget
           /\ Refuse(c)
           /\ UNCHANGED mint
        \/ /\ amount > 0 /\ RegularMinted + amount <= Budget
           /\ IF MintsOf(id) # {}
              THEN Goto(c, "read") /\ UNCHANGED mint
              ELSE /\ mint' = Append(mint, [contribution |-> id, amount |-> amount])
                   /\ Answer(c, "answer", id, amount)
  /\ UNCHANGED <<contribution, reversal, stored, answered>>

findCurrentEpochMintEvents(c) ==
  /\ At(c, "mint", "read")
  /\ \E k \in MintsOf(request[c].body.id) : Answer(c, "answer", mint[k].contribution, mint[k].amount)
  /\ UNCHANGED <<contribution, mint, reversal, stored, answered>>

-----------------------------------------------------------------------------
(* lib/api/token-reverse *)

findExistingReversal(k) == CHOOSE r \in ReversalsOf(k) : TRUE

\* reverseMint locks the mint row first, so that the whole call is one step.
reverseMint(c) ==
  /\ At(c, "reverse", "run")
  /\ LET k == request[c].body.id
         amount == request[c].body.amount
     IN CASE ReversalsOf(k) # {} ->
               Answer(c, "save", findExistingReversal(k), 0) /\ UNCHANGED reversal
          [] ReversalsOf(k) = {} /\ amount \in 1 .. mint[k].amount ->
               /\ reversal' = Append(reversal, [mint |-> k, amount |-> amount])
               /\ Answer(c, "save", Len(reversal'), 0)
          [] OTHER -> Refuse(c) /\ UNCHANGED reversal
  /\ UNCHANGED <<contribution, mint, stored, answered>>

-----------------------------------------------------------------------------
(* Clients, and the platform that runs the handlers *)

send(c) ==
  /\ request[c] = Idle
  /\ Cardinality(answered) < MaxAnswers
  /\ \/ \E key \in Keys :
          \/ \E body \in Bodies : Begin(c, "create", key, body)
          \/ \E k \in DOMAIN mint, amount \in Amounts :
               Begin(c, "reverse", key, [id |-> k, amount |-> amount])
     \/ \E id \in Contributions :
          \/ \E amount \in Amounts : Begin(c, "approve", None, [id |-> id, amount |-> amount])
          \/ Begin(c, "reject", None, [id |-> id, amount |-> 0])
          \/ Begin(c, "mint", None, [id |-> id, amount |-> 0])
  /\ UNCHANGED <<contribution, mint, reversal, stored, answered>>

\* A killed invocation, a failed statement or an answer lost on its way.
lose(c) ==
  /\ request[c] # Idle
  /\ Refuse(c)
  /\ UNCHANGED <<contribution, mint, reversal, stored, answered>>

Init ==
  /\ contribution = << >>
  /\ mint = << >>
  /\ reversal = << >>
  /\ stored = {}
  /\ request = [c \in Clients |-> Idle]
  /\ answered = {}

Next ==
  \/ createInConsole
  \/ \E c \in Clients :
       \/ send(c)
       \/ find(c)
       \/ save(c)
       \/ respond(c)
       \/ createContribution(c)
       \/ approveIfPending(c)
       \/ rejectIfPending(c)
       \/ readReview(c)
       \/ readForMint(c)
       \/ commitMint(c)
       \/ findCurrentEpochMintEvents(c)
       \/ reverseMint(c)
       \/ lose(c)

Spec == Init /\ [][Next]_vars

-----------------------------------------------------------------------------
(* Properties *)

Holds(a) ==
  CASE a.op = "create" -> a.id \in Contributions /\ contribution[a.id].body = a.body
    [] a.op = "approve" -> contribution[a.id].status = "approved" /\ contribution[a.id].amount = a.amount
    [] a.op = "reject" -> contribution[a.id].status = "rejected"
    [] a.op = "mint" ->
         /\ contribution[a.id].status = "approved"
         /\ contribution[a.id].amount = a.amount
         /\ \E k \in DOMAIN mint : MintsOf(a.id) = {k} /\ mint[k].amount = a.amount
    [] a.op = "reverse" -> ReversalsOf(a.body.id) = {a.id}

\* What a client was told stays true: the contribution it created has its body, an approved
\* amount is the one that was minted, once, a rejected contribution stays rejected, and the
\* reversal it was given is that of its mint - whoever reviewed, minted or reused the key meanwhile.
AnswersHold == \A a \in answered : Holds(a)

\* A request repeated after its answer replays it and runs nothing, whatever was lost or
\* overlapped when the key was first used.
RepeatsReplay == \A c \in Clients : request[c] # Idle /\ request[c].repeat => request[c].at \notin {"run", "save"}
=============================================================================
