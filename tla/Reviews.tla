------------------------------- MODULE Reviews -------------------------------
(***************************************************************************)
(* src/services/review.service.ts over src/model/reviewModel.ts.           *)
(* submitReview reads the requestor's progress, computes the next one and  *)
(* writes it in two statements without a transaction: a row of             *)
(* UserCardReview, then the whole row of UserCardProgress.                 *)
(***************************************************************************)
EXTENDS DeckAccess

CONSTANTS
  Day,          \* ticks in a day
  MaxInterval,  \* longest interval whose nextReviewAt is still a valid Date
  MaxClock      \* bound on the clock

ASSUME ReviewsAssumption ==
  /\ Day \in Nat \ {0}
  /\ MaxInterval \in Nat
  /\ MaxClock \in Nat

Progress(r) == progress[<<call[r].user, call[r].card>>]

\* The values submitReview computes with: the row's, or the defaults.
Existing(r) == IF row[r] = None THEN NewCard ELSE row[r]

\* getProgress and the getCardProgress of submitReview
GetCardProgress(r) ==
  /\ pc[r] = "loaded"
  /\ \/ /\ call[r].op = "submitReview"
        /\ Await(r, "compute", None, Progress(r))
     \/ /\ call[r].op = "getProgress"
        /\ Reply(r, IF Progress(r) = None THEN 404 ELSE 200)
  /\ UNCHANGED <<tables, clock, failures>>

\* sm2, now and nextReviewAt: the code between two awaits
Compute(r) ==
  /\ pc[r] = "compute"
  /\ \E s \in Sm2(Existing(r), call[r].quality) :
       Await(r, "review", None,
             [ease |-> s.ease, count |-> s.count, streak |-> s.streak,
              interval |-> s.interval, last |-> clock,
              next |-> clock + s.interval * Day])
  /\ UNCHANGED <<tables, clock, failures>>

\* Faulty variant: a duplicate key is ignored and the progress written anyway.
CreateReviewOrSkip(r) ==
  LET u == call[r].user  c == call[r].card IN
  /\ pc[r] = "review"
  /\ u \in users /\ cardDeck[c] # None
  /\ IF \E v \in reviews : v.user = u /\ v.card = c /\ v.at = clock
     THEN UNCHANGED tables
     ELSE InsertReview([user |-> u, card |-> c, at |-> clock,
                        quality |-> call[r].quality, ease |-> row[r].ease,
                        interval |-> row[r].interval])
  /\ Await(r, "upsert", None, row[r])
  /\ UNCHANGED <<clock, failures>>

\* createReview: reviewedAt defaults to the time of the statement.
CreateReview(r) ==
  LET u == call[r].user  c == call[r].card IN
  /\ pc[r] = "review"
  /\ \/ /\ \E v \in reviews : v.user = u /\ v.card = c /\ v.at = clock
        /\ UNCHANGED tables
        /\ Reply(r, PrismaStatus.P2002)
     \/ /\ u \notin users \/ cardDeck[c] = None
        /\ UNCHANGED tables
        /\ Reply(r, PrismaStatus.P2003)
     \/ /\ u \in users /\ cardDeck[c] # None
        /\ ~\E v \in reviews : v.user = u /\ v.card = c /\ v.at = clock
        /\ InsertReview([user |-> u, card |-> c, at |-> clock,
                         quality |-> call[r].quality, ease |-> row[r].ease,
                         interval |-> row[r].interval])
        /\ Await(r, "upsert", None, row[r])
  /\ UNCHANGED <<clock, failures>>

\* Faulty variant: an existing row is left as it is.
InsertProgressOnly(r) ==
  /\ pc[r] = "upsert"
  /\ IF Progress(r) = None THEN SetProgress(call[r].user, call[r].card, row[r])
                           ELSE UNCHANGED tables
  /\ Reply(r, 201)
  /\ UNCHANGED <<clock, failures>>

\* upsertCardProgress writes every column it is given.  Its foreign keys hold:
\* the review inserted before it pins the user and the card.  An Invalid Date
\* never reaches the database (PrismaClientValidationError, 400).
UpsertProgress(r) ==
  /\ pc[r] = "upsert"
  /\ \/ /\ row[r].interval <= MaxInterval
        /\ SetProgress(call[r].user, call[r].card, row[r])
        /\ Reply(r, 201)
     \/ /\ row[r].interval > MaxInterval
        /\ UNCHANGED tables
        /\ Reply(r, 400)
  /\ UNCHANGED <<clock, failures>>

\* Faulty variant: the deck scope is left out of the query.
ListDueUnscoped(r) ==
  /\ pc[r] = "start" /\ call[r].op = "listDue"
  /\ ReplyRows(r, 200, {c \in Card : /\ progress[<<call[r].user, c>>] # None
                                     /\ progress[<<call[r].user, c>>].next <= clock})
  /\ UNCHANGED <<tables, clock, failures>>

\* getDueCards: one query over the cards of visible decks
ListDue(r) ==
  /\ pc[r] = "start" /\ call[r].op = "listDue"
  /\ ReplyRows(r, 200,
       {c \in Card : /\ cardDeck[c] # None
                     /\ VisibleDeckScope(call[r].user, cardDeck[c])
                     /\ progress[<<call[r].user, c>>] # None
                     /\ progress[<<call[r].user, c>>].next <= clock})
  /\ UNCHANGED <<tables, clock, failures>>

Tick ==
  /\ clock < MaxClock
  /\ clock' = clock + 1
  /\ UNCHANGED <<tables, locals, failures>>
=============================================================================
