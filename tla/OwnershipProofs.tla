---------------------------- MODULE OwnershipProofs ----------------------------
(***************************************************************************)
(* Who owns a deck and where a card is, for every number of users, decks,  *)
(* cards and concurrent requests: HInv is inductive, because an id that    *)
(* was seen in use is never taken by a create again.                       *)
(***************************************************************************)
EXTENDS ApiProofs

-----------------------------------------------------------------------------
(* Calls and fresh ids. *)

LEMMA UnbornIds ==
  \A x : x \in Unborn <=> x \in unused \/ \E r \in Request : x \in Created(call[r])
BY DEF Unborn

LEMMA ClientCallCreates ==
  ASSUME NEW c \in ClientCalls
  PROVE  Created(c) \subseteq unused /\ (~OwnsSubject(c) => Created(c) = {})
<1>1. CASE c \in DeckCalls
  BY <1>1 DEF DeckCalls, Calls, Created, OwnsSubject
<1>2. CASE c \in CardCalls
  BY <1>2 DEF CardCalls, Calls, Created, OwnsSubject
<1>3. CASE c \in ReviewCalls
  BY <1>3 DEF ReviewCalls, Calls, Created
<1>4. CASE c \in UserCalls
  BY <1>4 DEF UserCalls, Calls, OnUser, Created
<1> QED  BY <1>1, <1>2, <1>3, <1>4 DEF ClientCalls

(* A step leaves the calls alone, ends one, or accepts one whose ids it     *)
(* takes out of `unused`.                                                   *)
Ended(r) == call' = [call EXCEPT ![r] = NoCall] /\ unused' = unused
Accepted(r, c) == /\ Created(c) \subseteq unused
                  /\ call' = [call EXCEPT ![r] = c]
                  /\ unused' = unused \ Created(c)

LEMMA Moves ==
  ASSUME IInv, [Next]_vars
  PROVE  \/ UNCHANGED <<call, unused>>
         \/ \E r \in Request : Ended(r) \/ \E c : Accepted(r, c)
<1>1. ASSUME NEW r \in Request, NEW s, NEW ids, ReplyRows(r, s, ids),
             unused' = unused
      PROVE  Ended(r)
  BY <1>1 DEF ReplyRows, Ended
<1>2. ASSUME NEW r \in Request, Arrive(r)
      PROVE  UNCHANGED <<call, unused>> \/ \E c : Accepted(r, c)
  <2>1. PICK c \in ClientCalls :
          /\ \/ call' = [call EXCEPT ![r] = c]
             \/ ~OwnsSubject(c) /\ UNCHANGED call
          /\ unused' = unused \ Created(c)
    BY <1>2 DEF Arrive
  <2> QED  BY <2>1, ClientCallCreates DEF Accepted
<1>3. ASSUME NEW r \in Request, Access(r) \/ Interrupted(r) \/ UserService(r)
      PROVE  UNCHANGED <<call, unused>> \/ Ended(r)
  BY <1>1, <1>3
  DEF Access, LoadCard, LoadDeck, LoadCollaborator, Interrupted, Await, Reply,
      UserService, FindUser, UpdateUser, DeleteUser, DropUser, tables
<1>4. ASSUME NEW r \in Request, DeckService(r)
      PROVE  Ended(r)
  BY <1>1, <1>4
  DEF DeckService, ListDecks, GetDeck, CreateDeck, UpdateDeck, DeleteDeck,
      InsertDeck, DropDeck, SetPublic, Reply, tables
<1>5. ASSUME NEW r \in Request, CardService(r)
      PROVE  Ended(r)
  BY <1>1, <1>5
  DEF CardService, ListCards, GetCard, CreateCard, UpdateCard, DeleteCard,
      SetCardDeck, Reply, tables
<1>6. ASSUME NEW r \in Request, ReviewService(r)
      PROVE  UNCHANGED <<call, unused>> \/ Ended(r)
  BY <1>1, <1>6
  DEF ReviewService, GetCardProgress, Compute, CreateReview, UpsertProgress,
      ListDue, InsertReview, SetProgress, Await, Reply, tables
<1>7. CASE Collaboration \/ Tick \/ UNCHANGED vars
  BY <1>7 DEF Collaboration, Share, Unshare, SetRole, Tick, vars, tables, locals
<1> QED  BY <1>2, <1>3, <1>4, <1>5, <1>6, <1>7 DEF Next

LEMMA NothingCreated == Created(NoCall) = {}
BY DEF Created, NoCall

LEMMA UnbornShrinks ==
  ASSUME HInv, [Next]_vars
  PROVE  /\ Unborn' \subseteq Unborn
         /\ \A r \in Request : Created(call'[r]) \cap unused' = {}
         /\ \A r, q \in Request :
              r # q => Created(call'[r]) \cap Created(call'[q]) = {}
<1> USE DEF HInv, IInv
<1>0. \A x : x \in Unborn' <=>
        x \in unused' \/ \E r \in Request : x \in Created(call'[r])
  BY DEF Unborn, Created
<1>1. CASE UNCHANGED <<call, unused>>
  BY <1>0, <1>1, UnbornIds DEF NoReuse
<1>2. CASE \E r \in Request : Ended(r)
  <2>1. PICK r \in Request : Ended(r)
    BY <1>2
  <2>2. \A q \in Request : call'[q] = IF q = r THEN NoCall ELSE call[q]
    BY <2>1 DEF Ended, TypeOK, RequestsTypeOK
  <2> QED  BY <1>0, <2>1, <2>2, UnbornIds, NothingCreated DEF NoReuse, Ended
<1>3. CASE \E r \in Request : \E c : Accepted(r, c)
  <2>0. PICK r \in Request : \E c : Accepted(r, c)
    BY <1>3
  <2>1. PICK c : Accepted(r, c)
    BY <2>0
  <2>2. \A q \in Request : call'[q] = IF q = r THEN c ELSE call[q]
    BY <2>1 DEF Accepted, TypeOK, RequestsTypeOK
  <2> QED  BY <1>0, <2>1, <2>2, UnbornIds DEF NoReuse, Accepted
<1> QED  BY <1>1, <1>2, <1>3, Moves

-----------------------------------------------------------------------------
(* A deck appears under an id that is then born, and disappears only by a   *)
(* deleteDeck; a card likewise, and never moves.                            *)

LEMMA BornByReply ==
  ASSUME HInv, [Next]_vars, NEW r \in Request, NEW x \in Created(call[r]),
         Ended(r)
  PROVE  x \in Unborn /\ x \notin Unborn'
<1> USE DEF HInv, IInv
<1>1. \A q \in Request : call'[q] = IF q = r THEN NoCall ELSE call[q]
  BY DEF Ended, TypeOK, RequestsTypeOK
<1>2. \A y : y \in Unborn' <=>
        y \in unused' \/ \E q \in Request : y \in Created(call'[q])
  BY DEF Unborn, Created
<1> QED  BY <1>1, <1>2, UnbornIds, NothingCreated DEF NoReuse, Ended

LEMMA OwnerChange ==
  ASSUME HInv, [Next]_vars, NEW d \in Deck, owner'[d] # owner[d]
  PROVE  \/ d \in Unborn /\ d \notin Unborn'
         \/ /\ owner'[d] = None
            /\ \E r \in Request : Loaded(r, "deleteDeck") /\ call[r].deck = d
<1> USE DEF HInv, IInv, TypeOK
<1>1. ASSUME NEW r \in Request, CreateDeck(r)
      PROVE  d \in Unborn /\ d \notin Unborn'
  <2>1. d = call[r].deck
    BY <1>1 DEF CreateDeck, InsertDeck, tables, TablesTypeOK
  <2>2. d \in Created(call[r]) /\ Ended(r)
    BY <1>1, <2>1
    DEF CreateDeck, Starting, Created, Ended, InsertDeck, Reply, ReplyRows, tables
  <2> QED  BY <2>2, BornByReply
<1>2. ASSUME NEW r \in Request, DeleteDeck(r)
      PROVE  owner'[d] = None /\ Loaded(r, "deleteDeck") /\ call[r].deck = d
  BY <1>2 DEF DeleteDeck, DropDeck, tables, TablesTypeOK
<1>3. ASSUME NEW r \in Request, ListDecks(r) \/ GetDeck(r) \/ UpdateDeck(r)
      PROVE  FALSE
  BY <1>3 DEF ListDecks, GetDeck, UpdateDeck, SetPublic, tables
<1>4. ASSUME NEW r \in Request,
             Arrive(r) \/ Access(r) \/ Interrupted(r) \/ UserService(r)
      PROVE  FALSE
  BY <1>4
  DEF Arrive, Access, LoadCard, LoadDeck, LoadCollaborator, Interrupted,
      UserService, FindUser, UpdateUser, DeleteUser, DropUser, tables
<1>5. ASSUME NEW r \in Request, CardService(r)
      PROVE  FALSE
  BY <1>5
  DEF CardService, ListCards, GetCard, CreateCard, UpdateCard, DeleteCard,
      SetCardDeck, tables
<1>6. ASSUME NEW r \in Request, ReviewService(r)
      PROVE  FALSE
  BY <1>6
  DEF ReviewService, GetCardProgress, Compute, CreateReview, UpsertProgress,
      ListDue, InsertReview, SetProgress, tables
<1>7. CASE Collaboration \/ Tick \/ UNCHANGED vars
  BY <1>7 DEF Collaboration, Share, Unshare, SetRole, Tick, vars, tables
<1> QED  BY <1>1, <1>2, <1>3, <1>4, <1>5, <1>6, <1>7 DEF Next, DeckService

LEMMA CardDeckChange ==
  ASSUME HInv, [Next]_vars, NEW c \in Card, cardDeck'[c] # cardDeck[c]
  PROVE  (c \in Unborn /\ c \notin Unborn') \/ cardDeck'[c] = None
<1> USE DEF HInv, IInv, TypeOK
<1>1. ASSUME NEW r \in Request, CreateCard(r)
      PROVE  c \in Unborn /\ c \notin Unborn'
  <2>1. c = call[r].card
    BY <1>1 DEF CreateCard, SetCardDeck, tables, TablesTypeOK
  <2>2. c \in Created(call[r]) /\ Ended(r)
    BY <1>1, <2>1
    DEF CreateCard, Loaded, Created, Ended, SetCardDeck, Reply, ReplyRows, tables
  <2> QED  BY <2>2, BornByReply
<1>2. ASSUME NEW r \in Request, DeleteCard(r)
      PROVE  cardDeck'[c] = None
  BY <1>2 DEF DeleteCard, SetCardDeck, tables, TablesTypeOK
<1>3. ASSUME NEW r \in Request, ListCards(r) \/ GetCard(r) \/ UpdateCard(r)
      PROVE  FALSE
  BY <1>3 DEF ListCards, GetCard, UpdateCard, tables
<1>4. ASSUME NEW r \in Request,
             Arrive(r) \/ Access(r) \/ Interrupted(r) \/ UserService(r)
      PROVE  FALSE
  BY <1>4
  DEF Arrive, Access, LoadCard, LoadDeck, LoadCollaborator, Interrupted,
      UserService, FindUser, UpdateUser, DeleteUser, DropUser, tables
<1>5. ASSUME NEW r \in Request, DeckService(r)
      PROVE  FALSE
  BY <1>5
  DEF DeckService, ListDecks, GetDeck, CreateDeck, UpdateDeck, DeleteDeck,
      InsertDeck, DropDeck, SetPublic, tables
<1>6. ASSUME NEW r \in Request, ReviewService(r)
      PROVE  FALSE
  BY <1>6
  DEF ReviewService, GetCardProgress, Compute, CreateReview, UpsertProgress,
      ListDue, InsertReview, SetProgress, tables
<1>7. CASE Collaboration \/ Tick \/ UNCHANGED vars
  BY <1>7 DEF Collaboration, Share, Unshare, SetRole, Tick, vars, tables
<1> QED  BY <1>1, <1>2, <1>3, <1>4, <1>5, <1>6, <1>7 DEF Next, CardService

LEMMA NextNoReuse ==
  ASSUME HInv, [Next]_vars
  PROVE  NoReuse'
<1>1. \A d \in Deck : d \in Unborn' => owner'[d] = None
  BY UnbornShrinks, OwnerChange DEF HInv, NoReuse
<1>2. \A c \in Card : c \in Unborn' => cardDeck'[c] = None
  BY UnbornShrinks, CardDeckChange DEF HInv, NoReuse
<1> QED  BY <1>1, <1>2, UnbornShrinks DEF NoReuse, Created

-----------------------------------------------------------------------------
(* What loadCard and loadDeck have seen stays so, or is gone.              *)

InAccess(w) == w \in {"deck", "collaborator", "loaded"}

(* How a request can come to one of the awaits after loadCard.              *)
Kept(q) == pc'[q] = pc[q] /\ call'[q] = call[q] /\ target'[q] = target[q]
CardSeen(q) == /\ pc'[q] = "deck" /\ pc[q] = "card"
               /\ cardDeck[call[q].card] # None
               /\ call'[q] = call[q] /\ target'[q] = cardDeck[call[q].card]
DeckSeen(q) ==
  /\ pc'[q] \in {"collaborator", "loaded"} /\ pc[q] = "deck"
  /\ owner[target[q]] # None
  /\ pc'[q] = "loaded" =>
       DeckGrants(call[q].user, target[q], ActionOf(call[q].op))
  /\ call'[q] = call[q] /\ target'[q] = target[q]
RoleSeen(q) ==
  /\ pc'[q] = "loaded" /\ pc[q] = "collaborator"
  /\ RoleGrants(role[<<target[q], call[q].user>>], ActionOf(call[q].op))
  /\ call'[q] = call[q] /\ target'[q] = target[q]
PathTaken(q) == pc'[q] = "deck" /\ call'[q].op \in OnDeck

LEMMA Origin ==
  ASSUME IInv, [Next]_vars, NEW q \in Request, InAccess(pc'[q])
  PROVE  Kept(q) \/ CardSeen(q) \/ DeckSeen(q) \/ RoleSeen(q) \/ PathTaken(q)
<1> USE DEF IInv, TypeOK, RequestsTypeOK
<1>1. ASSUME NEW r \in Request, NEW s, NEW ids, ReplyRows(r, s, ids)
      PROVE  Kept(q)
  BY <1>1 DEF ReplyRows, Kept, InAccess
<1>2. ASSUME NEW r \in Request, NEW w, NEW d, NEW p, ~InAccess(w),
             Await(r, w, d, p)
      PROVE  Kept(q)
  BY <1>2 DEF Await, Kept, InAccess
<1>3. ASSUME NEW r \in Request, NEW w, NEW d, NEW p, q # r, Await(r, w, d, p)
      PROVE  Kept(q)
  BY <1>3 DEF Await, Kept
<1>4. ASSUME NEW r \in Request, Arrive(r)
      PROVE  Kept(q) \/ PathTaken(q)
  <2>1. PICK c \in ClientCalls :
          \/ /\ pc' = [pc EXCEPT ![r] = FirstAwait(c.op)]
             /\ target' = [target EXCEPT ![r] =
                             IF c.op \in OnDeck THEN c.deck ELSE None]
             /\ call' = [call EXCEPT ![r] = c]
          \/ UNCHANGED <<pc, call, target>>
    BY <1>4 DEF Arrive
  <2> QED  BY <2>1 DEF Kept, PathTaken, InAccess, FirstAwait
<1>5. ASSUME NEW r \in Request, LoadCard(r)
      PROVE  Kept(q) \/ CardSeen(q)
  <2>1. CASE q = r
    BY <1>1, <1>5, <2>1 DEF LoadCard, Reply, Await, CardSeen
  <2>2. CASE q # r
    BY <1>1, <1>3, <1>5, <2>2 DEF LoadCard, Reply
  <2> QED  BY <2>1, <2>2
<1>6. ASSUME NEW r \in Request, LoadDeck(r)
      PROVE  Kept(q) \/ DeckSeen(q)
  <2>1. CASE q = r
    BY <1>1, <1>6, <2>1 DEF LoadDeck, Reply, Await, DeckSeen
  <2>2. CASE q # r
    BY <1>1, <1>3, <1>6, <2>2 DEF LoadDeck, Reply
  <2> QED  BY <2>1, <2>2
<1>7. ASSUME NEW r \in Request, LoadCollaborator(r)
      PROVE  Kept(q) \/ RoleSeen(q)
  <2>1. CASE q = r
    BY <1>1, <1>7, <2>1 DEF LoadCollaborator, Reply, Await, RoleSeen
  <2>2. CASE q # r
    BY <1>1, <1>3, <1>7, <2>2 DEF LoadCollaborator, Reply
  <2> QED  BY <2>1, <2>2
<1>8. ASSUME NEW r \in Request, DeckService(r)
      PROVE  Kept(q)
  BY <1>1, <1>8
  DEF DeckService, ListDecks, GetDeck, CreateDeck, UpdateDeck, DeleteDeck, Reply
<1>9. ASSUME NEW r \in Request, CardService(r) \/ Interrupted(r)
      PROVE  Kept(q)
  BY <1>1, <1>9
  DEF CardService, ListCards, GetCard, CreateCard, UpdateCard, DeleteCard,
      Interrupted, Reply
<1>10. ASSUME NEW r \in Request, UserService(r)
       PROVE  Kept(q)
  BY <1>1, <1>2, <1>10
  DEF UserService, FindUser, UpdateUser, DeleteUser, Reply, InAccess
<1>11. ASSUME NEW r \in Request, ReviewService(r)
       PROVE  Kept(q)
  <2>1. CASE GetCardProgress(r)
    BY <1>1, <1>2, <2>1 DEF GetCardProgress, Reply, InAccess
  <2>2. CASE Compute(r)
    <3>1. PICK p : Await(r, "review", None, p)
      BY <2>2 DEF Compute
    <3> QED  BY <1>2, <3>1 DEF InAccess
  <2>3. CASE CreateReview(r)
    BY <1>1, <1>2, <2>3 DEF CreateReview, Reply, InAccess
  <2>4. CASE UpsertProgress(r)
    BY <1>1, <2>4 DEF UpsertProgress, Reply
  <2>5. CASE ListDue(r)
    BY <1>1, <2>5 DEF ListDue
  <2> QED  BY <1>11, <2>1, <2>2, <2>3, <2>4, <2>5 DEF ReviewService
<1>12. CASE Collaboration \/ Tick \/ UNCHANGED vars
  BY <1>12 DEF Collaboration, Share, Unshare, Tick, vars, locals, Kept
<1> QED
  BY <1>4, <1>5, <1>6, <1>7, <1>8, <1>9, <1>10, <1>11, <1>12 DEF Next, Access

LEMMA NextHeld ==
  ASSUME HInv, [Next]_vars
  PROVE  Held'
<1> SUFFICES ASSUME NEW q \in Request, InAccess(pc'[q])
             PROVE  /\ pc'[q] \in {"collaborator", "loaded"} =>
                         target'[q] \notin Unborn'
                    /\ pc'[q] = "loaded" /\ call'[q].op = "deleteDeck" =>
                         owner'[target'[q]] \in {call'[q].user, None}
                    /\ call'[q].op \in OnCard =>
                         /\ call'[q].card \notin Unborn'
                         /\ cardDeck'[call'[q].card] \in {target'[q], None}
  BY DEF Held, InAccess
<1> USE DEF HInv
<1>1. IInv' /\ At(pc[q], call[q], target[q], row[q])
            /\ At(pc'[q], call'[q], target'[q], row'[q])
  BY NextIInv DEF IInv, LocalsOK
<1>2. Unborn' \subseteq Unborn
  BY UnbornShrinks
<1>3. \A d \in Deck : owner[d] # None => d \notin Unborn
  BY DEF NoReuse
<1>4. \A c \in Card : cardDeck[c] # None => c \notin Unborn
  BY DEF NoReuse
<1>5. \A d \in Deck : d \notin Unborn => owner'[d] \in {owner[d], None}
  BY OwnerChange
<1>6. \A c \in Card : c \notin Unborn => cardDeck'[c] \in {cardDeck[c], None}
  BY CardDeckChange
<1>7. target'[q] \in Deck
  BY <1>1 DEF At, InAccess
<1>8. call'[q].op \in OnCard => call'[q].card \in Card
  BY <1>1 DEF At, CallOK, InAccess
<1>9. CASE Kept(q)
  BY <1>2, <1>5, <1>6, <1>7, <1>8, <1>9 DEF Kept, Held, InAccess
<1>10. CASE CardSeen(q)
  BY <1>2, <1>4, <1>6, <1>8, <1>10, <1>1 DEF CardSeen, At, CallOK
<1>11. CASE DeckSeen(q)
  <2>1. target[q] \notin Unborn
    BY <1>3, <1>7, <1>11 DEF DeckSeen
  <2>2. pc'[q] = "loaded" /\ call[q].op = "deleteDeck" =>
          owner[target[q]] = call[q].user
    BY <1>11 DEF DeckSeen, DeckGrants, ActionOf
  <2>3. call[q].op \in OnCard => /\ call[q].card \notin Unborn
                                 /\ cardDeck[call[q].card] \in {target[q], None}
    BY <1>11 DEF DeckSeen, Held
  <2> QED
    BY <1>2, <1>5, <1>6, <1>7, <1>8, <1>11, <2>1, <2>2, <2>3 DEF DeckSeen
<1>12. CASE RoleSeen(q)
  <2>1. call[q].op # "deleteDeck"
    BY <1>12 DEF RoleSeen, RoleGrants, ActionOf
  <2>2. /\ target[q] \notin Unborn
        /\ call[q].op \in OnCard => /\ call[q].card \notin Unborn
                                    /\ cardDeck[call[q].card] \in {target[q], None}
    BY <1>12 DEF RoleSeen, Held
  <2> QED  BY <1>2, <1>6, <1>8, <1>12, <2>1, <2>2 DEF RoleSeen
<1>13. CASE PathTaken(q)
  BY <1>13 DEF PathTaken, OnDeck, OnCard
<1> QED
  BY <1>1, <1>9, <1>10, <1>11, <1>12, <1>13, Origin DEF IInv

LEMMA InitHInv == Init => HInv
<1> SUFFICES ASSUME Init PROVE HInv
  OBVIOUS
<1>1. NoReuse
  BY DEF Init, TablesInit, RequestsInit, NoReuse, Created, NoCall
<1>2. Held
  BY DEF Init, RequestsInit, Held
<1> QED  BY <1>1, <1>2, InitIInv DEF HInv

LEMMA AlwaysHInv == Spec => []HInv
<1>1. HInv /\ [Next]_vars => HInv'
  BY NextIInv, NextNoReuse, NextHeld DEF HInv
<1> QED  BY <1>1, InitHInv, PTL DEF Spec

-----------------------------------------------------------------------------
(* The properties.                                                         *)

OwnerKept ==
  \A d \in Deck :
    owner[d] # None /\ owner'[d] # owner[d]
      => /\ owner'[d] = None
         /\ \E r \in Request : /\ pc[r] = "loaded"
                               /\ call[r].op = "deleteDeck"
                               /\ call[r].deck = d
                               /\ call[r].user = owner[d]

(* A deck's owner never changes and only the owner's own deleteDeck ends    *)
(* the deck, even when that request acts on a verdict many steps old.       *)
THEOREM OwnersAreForever == Spec => OwnerForever
<1>1. HInv /\ [Next]_vars => [OwnerKept]_vars
  <2> SUFFICES ASSUME HInv, [Next]_vars, NEW d \in Deck, owner[d] # None,
                      owner'[d] # owner[d]
               PROVE  /\ owner'[d] = None
                      /\ \E r \in Request : /\ pc[r] = "loaded"
                                            /\ call[r].op = "deleteDeck"
                                            /\ call[r].deck = d
                                            /\ call[r].user = owner[d]
    BY DEF OwnerKept
  <2>1. owner'[d] = None
    BY OwnerChange DEF HInv, NoReuse
  <2>2. PICK r \in Request : Loaded(r, "deleteDeck") /\ call[r].deck = d
    BY OwnerChange DEF HInv, NoReuse
  <2>3. target[r] = d
    BY <2>2 DEF Loaded, HInv, IInv, LocalsOK, At, OnDeck
  <2>4. owner[d] \in {call[r].user, None}
    BY <2>2, <2>3 DEF Loaded, HInv, Held
  <2> QED  BY <2>1, <2>2, <2>4 DEF Loaded
<1>2. OwnerForever <=> [][OwnerKept]_vars
  BY DEF OwnerForever, OwnerKept
<1> QED  BY <1>1, <1>2, AlwaysHInv, PTL DEF Spec

WriteInPlace(r) ==
  CardWrite(r) =>
    /\ target[r] = call[r].deck
    /\ IF call[r].op = "createCard"
       THEN cardDeck'[call[r].card] = call[r].deck
       ELSE cardDeck[call[r].card] = call[r].deck

InPlace == \A r \in Request : WriteInPlace(r)

LEMMA WriteStep ==
  ASSUME HInv, [Next]_vars, NEW q \in Request, CardWrite(q)
  PROVE  CreateCard(q) \/ UpdateCard(q) \/ DeleteCard(q)
<1> USE DEF HInv, IInv, TypeOK, RequestsTypeOK
<1>1. /\ pc[q] = "loaded" /\ pc'[q] = "done" /\ answer'[q] \in {200, 201}
      /\ call[q].op \in {"createCard", "updateCard", "deleteCard"}
  BY DEF CardWrite
<1>2. ASSUME NEW r \in Request, NEW s, NEW ids, ReplyRows(r, s, ids)
      PROVE  r = q /\ s \in {200, 201}
  BY <1>1, <1>2 DEF ReplyRows
<1>3. ASSUME NEW r \in Request, NEW w, NEW d, NEW p, w # "done",
             Await(r, w, d, p)
      PROVE  FALSE
  BY <1>1, <1>3 DEF Await
<1>4. ASSUME NEW r \in Request, Arrive(r)
      PROVE  FALSE
  <2>1. pc[r] = "done" /\ \A x \in Request : x # r => pc'[x] = pc[x]
    BY <1>4 DEF Arrive
  <2> QED  BY <1>1, <2>1
<1>5. ASSUME NEW r \in Request, Access(r)
      PROVE  FALSE
  BY <1>2, <1>3, <1>5
  DEF Access, LoadCard, LoadDeck, LoadCollaborator, Reply
<1>6. ASSUME NEW r \in Request, Interrupted(r)
      PROVE  FALSE
  BY <1>2, <1>6 DEF Interrupted, Reply, Lost
<1>7. ASSUME NEW r \in Request, DeckService(r)
      PROVE  FALSE
  BY <1>1, <1>2, <1>7
  DEF DeckService, ListDecks, GetDeck, CreateDeck, UpdateDeck, DeleteDeck, Reply,
      Starting, Loaded
<1>8. ASSUME NEW r \in Request, UserService(r)
      PROVE  FALSE
  BY <1>1, <1>2, <1>3, <1>8
  DEF UserService, FindUser, UpdateUser, DeleteUser, Reply
<1>9. ASSUME NEW r \in Request, ReviewService(r)
      PROVE  FALSE
  <2>1. CASE GetCardProgress(r)
    BY <1>1, <1>2, <1>3, <2>1 DEF GetCardProgress, Reply
  <2>2. CASE Compute(r)
    <3>1. PICK p : Await(r, "review", None, p)
      BY <2>2 DEF Compute
    <3> QED  BY <1>3, <3>1
  <2>3. CASE CreateReview(r)
    BY <1>1, <1>2, <1>3, <2>3 DEF CreateReview, Reply
  <2>4. CASE UpsertProgress(r) \/ ListDue(r)
    BY <1>1, <1>2, <2>4 DEF UpsertProgress, ListDue, Reply
  <2> QED  BY <1>9, <2>1, <2>2, <2>3, <2>4 DEF ReviewService
<1>10. CASE Collaboration \/ Tick \/ UNCHANGED vars
  BY <1>1, <1>10 DEF Collaboration, Share, Unshare, Tick, vars, locals
<1>11. ASSUME NEW r \in Request, CardService(r)
       PROVE  CreateCard(q) \/ UpdateCard(q) \/ DeleteCard(q)
  <2>1. q = r
    BY <1>2, <1>11
    DEF CardService, ListCards, GetCard, CreateCard, UpdateCard, DeleteCard, Reply
  <2> QED  BY <1>1, <1>11, <2>1 DEF CardService, ListCards, GetCard, Loaded
<1> QED  BY <1>4, <1>5, <1>6, <1>7, <1>8, <1>9, <1>10, <1>11 DEF Next

(* A card write of a request takes effect in the deck the request was       *)
(* authorized for and named in its path, however long ago that was.         *)
THEOREM WritesStay == Spec => WritesStayInDeck
<1>1. HInv /\ [Next]_vars => [InPlace]_vars
  <2> SUFFICES ASSUME HInv, [Next]_vars, NEW q \in Request, CardWrite(q)
               PROVE  /\ target[q] = call[q].deck
                      /\ IF call[q].op = "createCard"
                         THEN cardDeck'[call[q].card] = call[q].deck
                         ELSE cardDeck[call[q].card] = call[q].deck
    BY DEF InPlace, WriteInPlace
  <2>1. answer'[q] \in {200, 201}
    BY DEF CardWrite
  <2>2. At(pc[q], call[q], target[q], row[q])
    BY DEF HInv, IInv, LocalsOK
  <2>3. CASE CreateCard(q)
    <3>1. call[q].card \in Card /\ target[q] = call[q].deck
      BY <2>2, <2>3 DEF CreateCard, Loaded, At, CallOK, OnDeck
    <3>2. SetCardDeck(call[q].card, call[q].deck)
      BY <2>1, <2>3
      DEF CreateCard, Reply, ReplyRows, PrismaStatus, HInv, IInv, TypeOK,
          RequestsTypeOK
    <3> QED
      BY <2>3, <3>1, <3>2
      DEF CreateCard, Loaded, SetCardDeck, HInv, IInv, TypeOK, TablesTypeOK
  <2>4. CASE UpdateCard(q) \/ DeleteCard(q)
    <3>1. UnderPath(q) /\ cardDeck[call[q].card] # None
      BY <2>1, <2>4
      DEF UpdateCard, DeleteCard, Reply, ReplyRows, PrismaStatus, HInv, IInv,
          TypeOK, RequestsTypeOK
    <3>2. cardDeck[call[q].card] = target[q]
      BY <2>4, <3>1 DEF UpdateCard, DeleteCard, Loaded, OnCard, HInv, Held
    <3> QED
      BY <2>4, <3>1, <3>2 DEF UpdateCard, DeleteCard, Loaded, UnderPath
  <2> QED  BY <2>3, <2>4, WriteStep
<1>2. WritesStayInDeck <=> [][InPlace]_vars
  BY DEF WritesStayInDeck, InPlace, WriteInPlace
<1> QED  BY <1>1, <1>2, AlwaysHInv, PTL DEF Spec
=============================================================================
