------------------------------ MODULE Requests ------------------------------
(***************************************************************************)
(* A request slot of the HTTP server.  authMiddleware has named the        *)
(* requestor and validationMiddleware has accepted the input; from then on *)
(* the service is a JavaScript async function that interleaves with every  *)
(* other request wherever it awaits a Prisma call.  pc names the call that *)
(* the slot awaits; the other variables are the function's locals.         *)
(***************************************************************************)
EXTENDS Tables

CONSTANTS
  Request,      \* slots: requests the server works on at the same time
  Traffic,      \* the (user, operation) pairs a slot carries requests of
  Quality,      \* the review grades clients send
  MaxFailures   \* bound: requests that are interrupted by a failure

VARIABLES
  pc,           \* the awaited call, "done" once answered
  call,         \* operation, requestor, path and body; NoCall once answered
  target,       \* the deckId that loadDeck was called with
  row,          \* submitReview: the progress row read, then the one computed
  answer,       \* HTTP status, NoAnswer before and Lost after an interruption
  rows,         \* ids of the rows a collection was answered with
  failures

locals == <<pc, call, target, row, answer, rows>>

NoAnswer == 0
Lost == 1
Statuses == {NoAnswer, Lost, 200, 201, 400, 403, 404, 409}

\* "loaded": loadDeck has returned.  "start": nothing is awaited yet.
Awaiting == {"start", "card", "deck", "collaborator", "loaded",
             "compute", "review", "upsert", "user", "write"}

\* The operations by what their service awaits first.
OnDeck == {"getDeck", "updateDeck", "deleteDeck", "listCards", "createCard"}
OnCard == {"getCard", "updateCard", "deleteCard", "submitReview", "getProgress"}
OnUser == {"readUser", "updateUser", "deleteUser"}
Operation == OnDeck \cup OnCard \cup OnUser \cup
             {"listDecks", "createDeck", "listDue"}

ASSUME RequestsAssumption ==
  /\ Traffic \in [Request -> SUBSET (User \X Operation)]
  /\ Quality \subseteq 0..5
  /\ MaxFailures \in Nat

Flag == {"true", "false", "omitted"}

Call == [op : Operation, user : User \cup {None}, deck : Deck \cup {None},
         card : Card \cup {None}, subject : User \cup {None},
         quality : 0..5, isPublic : Flag]

Calls(ops, decks, cards, subjects, qualities, flags) ==
  [op : ops, user : User, deck : decks, card : cards,
   subject : subjects, quality : qualities, isPublic : flags]

\* What a client can ask of each router.  A row's new id is taken from `unused`.
DeckCalls ==
  LET N == {None} IN
  Calls({"getDeck", "deleteDeck"}, Deck, N, N, {0}, {"omitted"})
  \cup Calls({"updateDeck"}, Deck, N, N, {0}, Flag)
  \cup Calls({"createDeck"}, unused \cap Deck, N, N, {0}, {"true", "false"})
  \cup Calls({"listDecks"}, N, N, User, {0}, {"omitted"})

CardCalls ==
  LET N == {None}  O == {"omitted"} IN
  Calls({"listCards"}, Deck, N, N, {0}, O)
  \cup Calls({"createCard"}, Deck, unused \cap Card, N, {0}, O)
  \cup Calls({"getCard", "updateCard", "deleteCard"}, Deck, Card, N, {0}, O)

ReviewCalls ==
  LET N == {None}  O == {"omitted"} IN
  Calls({"submitReview"}, N, Card, N, Quality, O)
  \cup Calls({"getProgress"}, N, Card, N, {0}, O)
  \cup Calls({"listDue"}, N, N, N, {0}, O)

UserCalls == Calls(OnUser, {None}, {None}, User, {0}, {"omitted"})

ClientCalls == DeckCalls \cup CardCalls \cup ReviewCalls \cup UserCalls

NoCall == [op |-> "listDue", user |-> None, deck |-> None, card |-> None,
           subject |-> None, quality |-> 0, isPublic |-> "omitted"]

RequestsTypeOK ==
  /\ pc \in [Request -> Awaiting \cup {"done"}]
  /\ call \in [Request -> Call]
  /\ target \in [Request -> Deck \cup {None}]
  /\ row \in [Request -> ProgressRow \cup {None}]
  /\ answer \in [Request -> Statuses]
  /\ rows \in [Request -> SUBSET (Deck \cup Card)]
  /\ failures \in Nat

RequestsInit ==
  /\ pc = [r \in Request |-> "done"]
  /\ call = [r \in Request |-> NoCall]
  /\ target = [r \in Request |-> None]
  /\ row = [r \in Request |-> None]
  /\ answer = [r \in Request |-> NoAnswer]
  /\ rows = [r \in Request |-> {}]
  /\ failures = 0

-----------------------------------------------------------------------------
\* The request returns or throws: its status is sent and its locals are gone.
ReplyRows(r, status, ids) ==
  /\ pc' = [pc EXCEPT ![r] = "done"]
  /\ answer' = [answer EXCEPT ![r] = status]
  /\ rows' = [rows EXCEPT ![r] = ids]
  /\ target' = [target EXCEPT ![r] = None]
  /\ row' = [row EXCEPT ![r] = None]
  /\ call' = [call EXCEPT ![r] = NoCall]

Reply(r, status) == ReplyRows(r, status, {})

\* The request goes on to await `next` with the locals d and p.
Await(r, next, d, p) ==
  /\ pc' = [pc EXCEPT ![r] = next]
  /\ target' = [target EXCEPT ![r] = d]
  /\ row' = [row EXCEPT ![r] = p]
  /\ UNCHANGED <<call, answer, rows>>

FirstAwait(op) ==
  IF op \in OnDeck THEN "deck"
  ELSE IF op \in OnCard THEN "card"
  ELSE IF op \in OnUser THEN "user"
  ELSE "start"

\* The id of the row that an accepted call will insert.
Created(c) == IF c.op = "createDeck" THEN {c.deck}
              ELSE IF c.op = "createCard" THEN {c.card} ELSE {}

\* requireOwnership on PUT and DELETE /user/:id
OwnsSubject(c) == c.op \in {"updateUser", "deleteUser"} => c.subject = c.user

\* An authenticated, validated request reaches its service, or is refused by
\* requireOwnership.  The session names a user whose row exists.
Arrive(r) ==
  \E c \in ClientCalls :
    /\ pc[r] = "done"
    /\ c.user \in users /\ <<c.user, c.op>> \in Traffic[r]
    /\ rows' = [rows EXCEPT ![r] = {}]
    /\ row' = [row EXCEPT ![r] = None]
    /\ \/ /\ OwnsSubject(c)
          /\ pc' = [pc EXCEPT ![r] = FirstAwait(c.op)]
          /\ target' = [target EXCEPT ![r] =
                          IF c.op \in OnDeck THEN c.deck ELSE None]
          /\ answer' = [answer EXCEPT ![r] = NoAnswer]
          /\ call' = [call EXCEPT ![r] = c]
       \/ /\ ~OwnsSubject(c)
          /\ answer' = [answer EXCEPT ![r] = 403]
          /\ UNCHANGED <<pc, call, target>>
    /\ unused' = unused \ Created(c)
    /\ UNCHANGED <<users, owner, public, role, cardDeck, progress, reviews,
                   clock, failures>>

\* The awaited call fails (500) or the process stops: statements already
\* committed stay, the rest of the request never runs.
Interrupted(r) ==
  /\ failures < MaxFailures
  /\ pc[r] # "done"
  /\ failures' = failures + 1
  /\ Reply(r, Lost)
  /\ UNCHANGED <<tables, clock>>
=============================================================================
