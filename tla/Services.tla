------------------------------ MODULE Services ------------------------------
(***************************************************************************)
(* src/services/deck.service.ts, card.service.ts and user.service.ts with  *)
(* the model functions they call: what each operation does once Deck       *)
(* Access has let it through.  One action is the synchronous code after an *)
(* await together with the next statement.                                 *)
(***************************************************************************)
EXTENDS DeckAccess

Starting(r, op) == pc[r] = "start" /\ call[r].op = op

-----------------------------------------------------------------------------
(* Decks *)

ListDecks(r) ==
  /\ Starting(r, "listDecks")
  /\ ReplyRows(r, 200, {d \in Deck : /\ owner[d] # None
                                     /\ owner[d] = call[r].subject
                                     /\ VisibleDeckScope(call[r].user, d)})
  /\ UNCHANGED <<tables, clock, failures>>

GetDeck(r) ==
  /\ Loaded(r, "getDeck")
  /\ Reply(r, 200)
  /\ UNCHANGED <<tables, clock, failures>>

\* No deck to load: the owner is the requestor, who may be gone by now.
CreateDeck(r) ==
  /\ Starting(r, "createDeck")
  /\ \/ /\ call[r].user \in users
        /\ InsertDeck(call[r].deck, call[r].user, call[r].isPublic)
        /\ Reply(r, 201)
     \/ /\ call[r].user \notin users
        /\ UNCHANGED tables
        /\ Reply(r, PrismaStatus.P2003)
  /\ UNCHANGED <<clock, failures>>

UpdateDeck(r) ==
  /\ Loaded(r, "updateDeck")
  /\ \/ /\ owner[call[r].deck] # None
        /\ SetPublic(call[r].deck, call[r].isPublic)
        /\ Reply(r, 200)
     \/ /\ owner[call[r].deck] = None
        /\ UNCHANGED tables
        /\ Reply(r, PrismaStatus.P2025)
  /\ UNCHANGED <<clock, failures>>

DeleteDeck(r) ==
  /\ Loaded(r, "deleteDeck")
  /\ \/ /\ owner[call[r].deck] # None /\ ~DeckReferenced(call[r].deck)
        /\ DropDeck(call[r].deck)
        /\ Reply(r, 200)
     \/ /\ owner[call[r].deck] # None /\ DeckReferenced(call[r].deck)
        /\ UNCHANGED tables
        /\ Reply(r, PrismaStatus.P2003)
     \/ /\ owner[call[r].deck] = None
        /\ UNCHANGED tables
        /\ Reply(r, PrismaStatus.P2025)
  /\ UNCHANGED <<clock, failures>>

-----------------------------------------------------------------------------
(* Cards *)

\* Faulty variant: the card's deck is not compared with the path's.
UnderAnyPath(r) == target[r] # None

\* card.deckId === deckId: the card that was loaded is under the path's deck
UnderPath(r) == target[r] = call[r].deck

ListCards(r) ==
  /\ Loaded(r, "listCards")
  /\ ReplyRows(r, 200, {c \in Card : cardDeck[c] = call[r].deck})
  /\ UNCHANGED <<tables, clock, failures>>

GetCard(r) ==
  /\ Loaded(r, "getCard")
  /\ Reply(r, IF UnderPath(r) THEN 200 ELSE 404)
  /\ UNCHANGED <<tables, clock, failures>>

CreateCard(r) ==
  /\ Loaded(r, "createCard")
  /\ \/ /\ owner[call[r].deck] # None
        /\ SetCardDeck(call[r].card, call[r].deck)
        /\ Reply(r, 201)
     \/ /\ owner[call[r].deck] = None
        /\ UNCHANGED tables
        /\ Reply(r, PrismaStatus.P2003)
  /\ UNCHANGED <<clock, failures>>

\* deckId is not a field of UpdateCardSchema: the card stays where it is.
UpdateCard(r) ==
  /\ Loaded(r, "updateCard")
  /\ \/ /\ UnderPath(r) /\ cardDeck[call[r].card] # None
        /\ Reply(r, 200)
     \/ /\ UnderPath(r) /\ cardDeck[call[r].card] = None
        /\ Reply(r, PrismaStatus.P2025)
     \/ /\ ~UnderPath(r)
        /\ Reply(r, 404)
  /\ UNCHANGED <<tables, clock, failures>>

DeleteCard(r) ==
  /\ Loaded(r, "deleteCard")
  /\ \/ /\ UnderPath(r) /\ cardDeck[call[r].card] # None
        /\ ~CardReferenced(call[r].card)
        /\ SetCardDeck(call[r].card, None)
        /\ Reply(r, 200)
     \/ /\ UnderPath(r) /\ cardDeck[call[r].card] # None
        /\ CardReferenced(call[r].card)
        /\ UNCHANGED tables
        /\ Reply(r, PrismaStatus.P2003)
     \/ /\ UnderPath(r) /\ cardDeck[call[r].card] = None
        /\ UNCHANGED tables
        /\ Reply(r, PrismaStatus.P2025)
     \/ /\ ~UnderPath(r)
        /\ UNCHANGED tables
        /\ Reply(r, 404)
  /\ UNCHANGED <<clock, failures>>

-----------------------------------------------------------------------------
(* Users *)

\* All three operations first look the user up.
FindUser(r) ==
  /\ pc[r] = "user"
  /\ \/ /\ call[r].subject \notin users
        /\ Reply(r, 404)
     \/ /\ call[r].subject \in users /\ call[r].op = "readUser"
        /\ Reply(r, 200)
     \/ /\ call[r].subject \in users /\ call[r].op # "readUser"
        /\ Await(r, "write", None, None)
  /\ UNCHANGED <<tables, clock, failures>>

UpdateUser(r) ==
  /\ pc[r] = "write" /\ call[r].op = "updateUser"
  /\ Reply(r, IF call[r].subject \in users THEN 200 ELSE PrismaStatus.P2025)
  /\ UNCHANGED <<tables, clock, failures>>

DeleteUser(r) ==
  /\ pc[r] = "write" /\ call[r].op = "deleteUser"
  /\ \/ /\ call[r].subject \in users /\ ~UserReferenced(call[r].subject)
        /\ DropUser(call[r].subject)
        /\ Reply(r, 200)
     \/ /\ call[r].subject \in users /\ UserReferenced(call[r].subject)
        /\ UNCHANGED tables
        /\ Reply(r, PrismaStatus.P2003)
     \/ /\ call[r].subject \notin users
        /\ UNCHANGED tables
        /\ Reply(r, PrismaStatus.P2025)
  /\ UNCHANGED <<clock, failures>>

-----------------------------------------------------------------------------
(* No route writes DeckCollaborator: its rows are set in the database. *)

Share(d, u, ro) ==
  /\ owner[d] # None /\ owner[d] # u /\ u \in users /\ role[<<d, u>>] # ro
  /\ SetRole(d, u, ro)
  /\ UNCHANGED <<locals, clock, failures>>

Unshare(d, u) ==
  /\ role[<<d, u>>] # "none"
  /\ SetRole(d, u, "none")
  /\ UNCHANGED <<locals, clock, failures>>
=============================================================================
