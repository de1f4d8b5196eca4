---------------------------- MODULE ApiInvariants ----------------------------
(***************************************************************************)
(* The inductive strengthenings of the properties of Api: what a request's *)
(* locals hold at each of its awaits, and which ids are still to be born.  *)
(***************************************************************************)
EXTENDS Api

\* The parameters an operation is called with are there.
CallOK(c) ==
  /\ c.user \in User
  /\ c.op \in OnDeck \cup {"createDeck"} => c.deck \in Deck
  /\ c.op \in OnCard \cup {"createCard"} => c.card \in Card
  /\ c.op \in OnUser => c.subject \in User

\* What holds of a request's call c and locals d, p where it awaits.
At(where, c, d, p) ==
  /\ where # "done" => CallOK(c)
  /\ where = "start" => c.op \in {"listDecks", "createDeck", "listDue"}
  /\ where = "card" => c.op \in OnCard
  /\ where \in {"deck", "collaborator", "loaded"} =>
       /\ c.op \in OnDeck \cup OnCard
       /\ d \in Deck
       /\ c.op \in OnDeck => d = c.deck
  /\ where \in {"compute", "review", "upsert"} => c.op = "submitReview"
  /\ where \in {"review", "upsert"} => p \in ProgressRow
  /\ where \in {"user", "write"} => c.op \in OnUser

LocalsOK == \A r \in Request : At(pc[r], call[r], target[r], row[r])

\* The review a pending upsert follows keeps its user and card in place.
UpsertPinned ==
  \A r \in Request : pc[r] = "upsert" =>
    \E v \in reviews : v.user = call[r].user /\ v.card = call[r].card

\* The row a submission has read, or is about to write, is one sm2 can leave.
RowsOK ==
  \A r \in Request : row[r] # None => Learned(row[r]) /\ Scheduled(row[r])

IInv == TypeOK /\ References /\ LocalsOK /\ UpsertPinned

SInv == IInv /\ RowsOK /\ ScheduleWellFormed

\* A pending request is one its slot carries.
Admitted == \A r \in Request : pc[r] # "done" => <<call[r].user, call[r].op>> \in Traffic[r]

AInv == IInv /\ Admitted

\* Nobody requests this operation.
Without(op) == \A r \in Request, u \in User : <<u, op>> \notin Traffic[r]

-----------------------------------------------------------------------------
Recorded(u, c) == Cardinality(Successes(u, c))

\* How far the row of a submission is ahead of the reviews that are recorded: a
\* success it has computed is still to be inserted, its upsert comes after that.
Covered(r) ==
  LET u == call[r].user  c == call[r].card  p == row[r] IN
  /\ pc[r] = "compute" /\ p # None => p.count <= Recorded(u, c)
  /\ pc[r] = "review" =>
       p.count <= (IF call[r].quality >= 3 THEN Recorded(u, c) + 1 ELSE 0)
  /\ pc[r] = "upsert" =>
       /\ p.count <= Recorded(u, c)
       /\ \E v \in reviews : /\ v.user = u /\ v.card = c
                             /\ v.ease = p.ease /\ v.interval = p.interval
                             /\ p.last <= v.at

BInv ==
  /\ SInv
  /\ IsFiniteSet(reviews)
  /\ ProgressBacked
  /\ \A r \in Request : Covered(r)

-----------------------------------------------------------------------------
\* The unique key of UserCardReview, and no review is of the future.
Dated ==
  /\ \A v \in reviews : v.at <= clock
  /\ \A v, w \in reviews :
       v.user = w.user /\ v.card = w.card /\ v.at = w.at => v = w

\* p is one sm2 makes of what the table holds for the card of call c.
Computed(c, p) ==
  /\ \E s \in Sm2(IF progress[<<c.user, c.card>>] = None THEN NewCard
                   ELSE progress[<<c.user, c.card>>], c.quality) :
       p = [ease |-> s.ease, count |-> s.count, streak |-> s.streak,
            interval |-> s.interval, last |-> p.last,
            next |-> p.last + s.interval * Day]
  /\ p.last <= clock

\* v is the last review of its user and card.
Latest(v) == \A w \in reviews : w.user = v.user /\ w.card = v.card => w.at <= v.at

\* Of a submission that is the only one of its user: what it has read is still
\* the table's, and the review it has inserted is the last there is.
Undisturbed(r) ==
  /\ pc[r] = "compute" => row[r] = Progress(r)
  /\ pc[r] \in {"review", "upsert"} => Computed(call[r], row[r])
  /\ pc[r] = "upsert" =>
       \E v \in reviews :
         /\ v.user = call[r].user /\ v.card = call[r].card /\ Latest(v)
         /\ v.quality = call[r].quality /\ v.ease = row[r].ease
         /\ v.interval = row[r].interval /\ row[r].last <= v.at

StudyInv == AInv /\ Dated /\ \A r \in Request : Undisturbed(r)

-----------------------------------------------------------------------------
\* Ids without a row yet: never handed out, or handed to a pending create.
Unborn == unused \cup UNION {Created(call[r]) : r \in Request}

NoReuse ==
  /\ \A d \in Deck \cap Unborn : owner[d] = None
  /\ \A c \in Card \cap Unborn : cardDeck[c] = None
  /\ \A r \in Request : Created(call[r]) \cap unused = {}
  /\ \A r, q \in Request :
       r # q => Created(call[r]) \cap Created(call[q]) = {}

\* What loadDeck and loadCard have seen is no id that a create may still take,
\* so it is there with the owner and the deck they saw, or is gone for good.
Held ==
  \A r \in Request :
    /\ pc[r] \in {"collaborator", "loaded"} => target[r] \notin Unborn
    /\ pc[r] = "loaded" /\ call[r].op = "deleteDeck" =>
         owner[target[r]] \in {call[r].user, None}
    /\ pc[r] \in {"deck", "collaborator", "loaded"} /\ call[r].op \in OnCard =>
         /\ call[r].card \notin Unborn
         /\ cardDeck[call[r].card] \in {target[r], None}

HInv == IInv /\ NoReuse /\ Held
=============================================================================
