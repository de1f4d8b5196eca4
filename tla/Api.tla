--------------------------------- MODULE Api ---------------------------------
(***************************************************************************)
(* The product API: the deck, card, user and review services answering     *)
(* concurrent requests over one database, with collaborators added and     *)
(* removed in the database meanwhile.                                      *)
(***************************************************************************)
EXTENDS Services, Reviews

vars == <<tables, clock, locals, failures>>

Init == TablesInit /\ RequestsInit

DeckService(r) ==
  ListDecks(r) \/ GetDeck(r) \/ CreateDeck(r) \/ UpdateDeck(r) \/ DeleteDeck(r)

CardService(r) ==
  ListCards(r) \/ GetCard(r) \/ CreateCard(r) \/ UpdateCard(r) \/ DeleteCard(r)

UserService(r) == FindUser(r) \/ UpdateUser(r) \/ DeleteUser(r)

ReviewService(r) ==
  \/ GetCardProgress(r) \/ Compute(r) \/ CreateReview(r) \/ UpsertProgress(r)
  \/ ListDue(r)

Collaboration ==
  \E d \in Deck, u \in User :
    Unshare(d, u) \/ \E ro \in {"EDITOR", "VIEWER"} : Share(d, u, ro)

Next ==
  \/ \E r \in Request :
       \/ Arrive(r) \/ Access(r) \/ Interrupted(r)
       \/ DeckService(r) \/ CardService(r) \/ UserService(r) \/ ReviewService(r)
  \/ Collaboration
  \/ Tick

Spec == Init /\ [][Next]_vars

-----------------------------------------------------------------------------
TypeOK == TablesTypeOK /\ RequestsTypeOK

(* openapi.ts: the statuses of an operation that a service can decide       *)
Documented(op) ==
  CASE op \in {"createDeck"}                -> {201, 400}
    [] op \in {"createCard", "submitReview"} -> {201, 400, 403, 404}
    [] op = "listDecks"                      -> {200, 400, 403}
    [] op = "listDue"                        -> {200}
    [] op = "readUser"                       -> {200, 400, 404}
    [] OTHER                                 -> {200, 400, 403, 404}

(* What the glossary grants: the owner everything, an editor reading and    *)
(* editing, a viewer reading, everyone reading a public deck.               *)
Permitted(u, d, action) ==
  /\ owner[d] # None
  /\ \/ owner[d] = u
     \/ action = "read" /\ d \in public
     \/ action = "read" /\ role[<<d, u>>] = "VIEWER"
     \/ action \in {"read", "edit"} /\ role[<<d, u>>] = "EDITOR"

(* Foreign keys: no row ever refers to a row that is gone, whatever order   *)
(* the deletes of decks, cards and users and the inserts below them run in. *)
References ==
  /\ \A d \in Deck : owner[d] # None => owner[d] \in users
  /\ \A d \in Deck, u \in User :
       role[<<d, u>>] # "none" => owner[d] # None /\ u \in users
  /\ \A c \in Card : cardDeck[c] # None => owner[cardDeck[c]] # None
  /\ \A u \in User, c \in Card :
       progress[<<u, c>>] # None => u \in users /\ cardDeck[c] # None
  /\ \A v \in reviews : v.user \in users /\ cardDeck[v.card] # None

(* loadDeck answers from a deck row it may have read before an await.       *)
(* Whenever it nevertheless lets a request through, the requestor is        *)
(* permitted the action on that deck at that very moment.                   *)
VerdictSound ==
  [][\A r \in Request :
       pc[r] # "loaded" /\ pc'[r] = "loaded"
         => Permitted(call[r].user, target[r], ActionOf(call[r].op))]_vars

\* the step in which a card write of request r takes effect
CardWrite(r) ==
  /\ pc[r] = "loaded" /\ pc'[r] = "done" /\ answer'[r] \in {200, 201}
  /\ call[r].op \in {"createCard", "updateCard", "deleteCard"}

(* Cards never move between decks and ids are never reused, so the deck     *)
(* that was authorized for a card operation is still the card's deck, and   *)
(* the path's, when its write runs: a write lands nowhere else.             *)
WritesStayInDeck ==
  [][\A r \in Request :
       CardWrite(r) =>
         /\ target[r] = call[r].deck
         /\ IF call[r].op = "createCard"
            THEN cardDeck'[call[r].card] = call[r].deck
            ELSE cardDeck[call[r].card] = call[r].deck]_vars

(* A deck keeps its owner for as long as it exists, and only a deleteDeck   *)
(* of that very owner ends it, however stale the verdict it acts on.        *)
OwnerForever ==
  [][\A d \in Deck :
       owner[d] # None /\ owner'[d] # owner[d]
         => /\ owner'[d] = None
            /\ \E r \in Request : /\ pc[r] = "loaded"
                                  /\ call[r].op = "deleteDeck"
                                  /\ call[r].deck = d
                                  /\ call[r].user = owner[d]]_vars

(* openapi.ts promises a caller the statuses an operation may answer with.  *)
(* No race between an access decision and the write after it produces       *)
(* another one.  (401 and 429 are decided before the service; Lost stands   *)
(* for the documented 500.)                                                 *)
DocumentedAnswer ==
  [][\A r \in Request :
       pc[r] # "done" /\ pc'[r] = "done" /\ answer'[r] # Lost
         => answer'[r] \in Documented(call[r].op)]_vars

(* ADR 0001, for the collections built from visibleDeckScope: every row     *)
(* selected belongs to a deck the requestor may read at the time of the     *)
(* query.                                                                   *)
CollectionsScoped ==
  [][\A r \in Request :
       rows'[r] # rows[r] =>
         \A x \in rows'[r] :
           Permitted(call[r].user, IF x \in Deck THEN x ELSE cardDeck[x],
                     "read")]_vars

(* GLOSSARY.md: a public deck is one its owner has opened.                  *)
OwnerOpens ==
  [][\A d \in public' \ public :
       \E r \in Request : /\ pc[r] # "done" /\ pc'[r] = "done"
                          /\ call[r].user = owner'[d]]_vars

\* the fields that sm2 computes, as it can have left them ...
Learned(p) ==
  /\ p.streak = p.count
  /\ p.ease >= MinEase
  /\ p.count <= 1 => p.interval = 1
  /\ p.count >= 2 => p.interval >= 6

\* ... and the dates that submitReview derives from them
Scheduled(p) ==
  /\ p.last <= clock
  /\ p.next = p.last + p.interval * Day

(* Whatever submissions interleave and whichever of them die half way, the  *)
(* progress row is one that SM-2 can produce: the streak is the number of   *)
(* successes in a row, a learning card waits a day, a graduated one at      *)
(* least six, and the card is due exactly that long after its review.       *)
ScheduleWellFormed ==
  \A u \in User, c \in Card :
    LET p == progress[<<u, c>>] IN
    p # None => Learned(p) /\ Scheduled(p) /\ p.interval <= MaxInterval

(* Two tables written by two statements: a progress row always comes from   *)
(* a recorded review and never counts more successes than were recorded.    *)
Successes(u, c) == {v \in reviews : v.user = u /\ v.card = c /\ v.quality >= 3}

ProgressBacked ==
  \A u \in User, c \in Card :
    LET p == progress[<<u, c>>] IN
    p # None =>
      /\ p.count <= Cardinality(Successes(u, c))
      /\ \E v \in reviews : /\ v.user = u /\ v.card = c
                            /\ v.ease = p.ease /\ v.interval = p.interval
                            /\ p.last <= v.at
=============================================================================
