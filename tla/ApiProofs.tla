------------------------------ MODULE ApiProofs ------------------------------
(***************************************************************************)
(* Theorems about Api for every number of users, decks, cards, request     *)
(* slots and every traffic.                                                *)
(***************************************************************************)
EXTENDS ApiInvariants, TLAPS

-----------------------------------------------------------------------------
(* The two ways a request moves keep its locals typed and placed. *)

LEMMA ReplyOK ==
  ASSUME RequestsTypeOK, LocalsOK, NEW r \in Request, NEW s \in Statuses,
         NEW ids \in SUBSET (Deck \cup Card),
         ReplyRows(r, s, ids), failures' \in Nat
  PROVE  RequestsTypeOK' /\ LocalsOK'
<1>1. NoCall \in Call
  BY DEF NoCall, Call, Operation, OnDeck, OnCard, OnUser, Flag
<1>2. RequestsTypeOK'
  BY <1>1 DEF RequestsTypeOK, ReplyRows, Awaiting
<1>3. LocalsOK'
  <2> SUFFICES ASSUME NEW q \in Request
               PROVE  At(pc'[q], call'[q], target'[q], row'[q])
    BY DEF LocalsOK, At, CallOK
  <2>1. CASE q = r
    <3>1. pc'[q] = "done"
      BY <2>1 DEF ReplyRows, RequestsTypeOK
    <3> QED  BY <3>1 DEF At
  <2>2. CASE q # r
    <3>1. /\ pc'[q] = pc[q] /\ call'[q] = call[q]
          /\ target'[q] = target[q] /\ row'[q] = row[q]
      BY <2>2 DEF ReplyRows, RequestsTypeOK
    <3> QED  BY <3>1 DEF LocalsOK
  <2> QED  BY <2>1, <2>2
<1> QED  BY <1>2, <1>3

LEMMA AwaitOK ==
  ASSUME RequestsTypeOK, LocalsOK, NEW r \in Request, NEW next \in Awaiting,
         NEW d \in Deck \cup {None}, NEW p \in ProgressRow \cup {None},
         At(next, call[r], d, p),
         Await(r, next, d, p), failures' \in Nat
  PROVE  RequestsTypeOK' /\ LocalsOK'
<1>1. RequestsTypeOK'
  BY DEF RequestsTypeOK, Await
<1>2. LocalsOK'
  <2> SUFFICES ASSUME NEW q \in Request
               PROVE  At(pc'[q], call'[q], target'[q], row'[q])
    BY DEF LocalsOK, At, CallOK
  <2>1. CASE q = r
    <3>1. /\ pc'[q] = next /\ call'[q] = call[q]
          /\ target'[q] = d /\ row'[q] = p
      BY <2>1 DEF Await, RequestsTypeOK
    <3> QED  BY <2>1, <3>1
  <2>2. CASE q # r
    <3>1. /\ pc'[q] = pc[q] /\ call'[q] = call[q]
          /\ target'[q] = target[q] /\ row'[q] = row[q]
      BY <2>2 DEF Await, RequestsTypeOK
    <3> QED  BY <3>1 DEF LocalsOK
  <2> QED  BY <2>1, <2>2
<1> QED  BY <1>1, <1>2

-----------------------------------------------------------------------------
(* Sm2 keeps a row one: the four fields stay natural numbers. *)

Shape(p) == /\ p.ease \in Nat /\ p.count \in Nat
            /\ p.streak \in Nat /\ p.interval \in Nat

LEMMA NextEaseNat ==
  ASSUME NEW e \in Nat, NEW q \in 0..5
  PROVE  NextEase(e, q) \in Nat /\ NextEase(e, q) >= MinEase
<1>1. EaseDelta(q) \in Int
  BY DEF EaseDelta
<1> QED  BY <1>1 DEF NextEase, MinEase

LEMMA RoundedNat ==
  ASSUME NEW n \in Nat, NEW k \in Rounded(n)
  PROVE  k \in Nat
<1>1. CASE (n + 50) % 100 = 0
  <2>1. (n + 50) \div 100 >= 1 /\ (n + 50) \div 100 \in Int
    BY <1>1
  <2> QED  BY <1>1, <2>1 DEF Rounded
<1>2. CASE (n + 50) % 100 # 0
  BY <1>2 DEF Rounded
<1> QED  BY <1>1, <1>2

LEMMA Sm2Nat ==
  ASSUME NEW p, Shape(p), NEW q \in 0..5, NEW s \in Sm2(p, q)
  PROVE  Shape(s)
<1> DEFINE e == NextEase(p.ease, q)
<1>1. e \in Nat
  BY NextEaseNat DEF Shape
<1>2. \A i \in NextInterval(p.count, p.interval, e, q) : i \in Nat
  <2>1. p.interval * e \in Nat
    BY <1>1 DEF Shape
  <2> QED  BY <2>1, RoundedNat DEF NextInterval
<1>3. PICK i \in NextInterval(p.count, p.interval, e, q) :
        s = [ease |-> e, count |-> IF q < 3 THEN 0 ELSE p.count + 1,
             streak |-> IF q < 3 THEN 0
                        ELSE IF p.count = 0 THEN 1 ELSE p.streak + 1,
             interval |-> i]
  BY DEF Sm2
<1> HIDE DEF e
<1> QED  BY <1>1, <1>2, <1>3 DEF Shape

-----------------------------------------------------------------------------
(* Type correctness, together with the placing of requests it needs. *)

TypedOK == TypeOK /\ LocalsOK

LEMMA ClientCallOK ==
  ASSUME NEW c \in ClientCalls
  PROVE  c \in Call /\ CallOK(c)
<1> USE DEF ClientCalls, DeckCalls, CardCalls, ReviewCalls, UserCalls, Calls
<1>1. c = [op |-> c.op, user |-> c.user, deck |-> c.deck, card |-> c.card,
           subject |-> c.subject, quality |-> c.quality,
           isPublic |-> c.isPublic]
  OBVIOUS
<1>2. c.op \in Operation /\ c.user \in User
  BY DEF Operation, OnDeck, OnCard, OnUser
<1>3. /\ c.deck \in Deck \cup {None} /\ c.card \in Card \cup {None}
      /\ c.subject \in User \cup {None}
  OBVIOUS
<1>4. c.quality \in 0..5
  <2>1. c.quality \in Quality \cup {0}
    OBVIOUS
  <2>2. \A x \in Quality \cup {0} : x \in 0..5
    BY RequestsAssumption
  <2> QED  BY <2>1, <2>2
<1>5. c.isPublic \in Flag
  BY DEF Flag
<1>6. CallOK(c)
  BY DEF CallOK, OnDeck, OnCard, OnUser
<1> QED  BY <1>1, <1>2, <1>3, <1>4, <1>5, <1>6 DEF Call

LEMMA ArriveTyped ==
  ASSUME TypedOK, NEW r \in Request, Arrive(r)
  PROVE  TypedOK'
<1> USE DEF TypedOK, TypeOK
<1>1. PICK c \in ClientCalls :
        /\ pc[r] = "done"
        /\ rows' = [rows EXCEPT ![r] = {}]
        /\ row' = [row EXCEPT ![r] = None]
        /\ \/ /\ pc' = [pc EXCEPT ![r] = FirstAwait(c.op)]
              /\ target' = [target EXCEPT ![r] =
                              IF c.op \in OnDeck THEN c.deck ELSE None]
              /\ answer' = [answer EXCEPT ![r] = NoAnswer]
              /\ call' = [call EXCEPT ![r] = c]
           \/ /\ answer' = [answer EXCEPT ![r] = 403]
              /\ UNCHANGED <<pc, call, target>>
        /\ unused' = unused \ Created(c)
        /\ UNCHANGED <<users, owner, public, role, cardDeck, progress, reviews,
                       clock, failures>>
  BY DEF Arrive
<1>2. c \in Call /\ CallOK(c)
  BY ClientCallOK
<1>3. FirstAwait(c.op) \in Awaiting
  BY DEF FirstAwait, Awaiting
<1>4. /\ FirstAwait(c.op) = "deck" => c.op \in OnDeck
      /\ FirstAwait(c.op) = "card" => c.op \in OnCard
      /\ FirstAwait(c.op) = "user" => c.op \in OnUser
      /\ FirstAwait(c.op) = "start" =>
           c.op \in {"listDecks", "createDeck", "listDue"}
      /\ FirstAwait(c.op) \in {"deck", "card", "user", "start"}
  BY <1>2 DEF FirstAwait, Call, Operation
<1>5. TablesTypeOK'
  BY <1>1 DEF TablesTypeOK
<1>6. RequestsTypeOK'
  BY <1>1, <1>2, <1>3 DEF RequestsTypeOK, CallOK, Statuses, NoAnswer
<1>7. LocalsOK'
  <2> SUFFICES ASSUME NEW q \in Request
               PROVE  At(pc'[q], call'[q], target'[q], row'[q])
    BY DEF LocalsOK, At, CallOK
  <2>1. CASE q # r
    <3>1. /\ pc'[q] = pc[q] /\ call'[q] = call[q]
          /\ target'[q] = target[q] /\ row'[q] = row[q]
      BY <1>1, <2>1 DEF RequestsTypeOK
    <3> QED  BY <3>1 DEF LocalsOK
  <2>2. CASE q = r /\ pc'[r] = "done"
    BY <2>2 DEF At
  <2>3. CASE q = r /\ pc'[r] # "done"
    <3>1. /\ pc'[r] = FirstAwait(c.op) /\ call'[r] = c
          /\ target'[r] = IF c.op \in OnDeck THEN c.deck ELSE None
      BY <1>1, <2>3 DEF RequestsTypeOK
    <3> QED  BY <1>2, <1>4, <2>3, <3>1 DEF At, CallOK
  <2> QED  BY <2>1, <2>2, <2>3
<1> QED  BY <1>5, <1>6, <1>7

LEMMA AccessTyped ==
  ASSUME TypedOK, NEW r \in Request, Access(r)
  PROVE  TypedOK'
<1> USE DEF TypedOK, TypeOK
<1>1. At(pc[r], call[r], target[r], row[r]) /\ failures' \in Nat
      /\ call[r] \in Call /\ row[r] \in ProgressRow \cup {None}
  BY DEF LocalsOK, Access, LoadCard, LoadDeck, LoadCollaborator,
         RequestsTypeOK
<1>2. TablesTypeOK'
  <2>1. UNCHANGED <<tables, clock>>
    BY DEF Access, LoadCard, LoadDeck, LoadCollaborator
  <2> QED  BY <2>1 DEF TablesTypeOK, tables
<1>3. CASE LoadCard(r)
  <2>1. CASE Reply(r, 404)
    BY <1>1, <1>2, <2>1, ReplyOK DEF Reply, Statuses
  <2>2. CASE /\ cardDeck[call[r].card] # None
             /\ Await(r, "deck", cardDeck[call[r].card], None)
    <3>1. cardDeck[call[r].card] \in Deck
      BY <1>1, <1>3, <2>2 DEF LoadCard, At, CallOK, TablesTypeOK
    <3>2. At("deck", call[r], cardDeck[call[r].card], None)
      BY <1>1, <1>3, <3>1 DEF LoadCard, At, OnCard, OnDeck
    <3> QED  BY <1>1, <1>2, <2>2, <3>1, <3>2, AwaitOK DEF Awaiting
  <2> QED  BY <1>2, <1>3, <2>1, <2>2 DEF LoadCard
<1>4. CASE LoadDeck(r)
  <2>1. CASE Reply(r, 404)
    BY <1>1, <1>2, <2>1, ReplyOK DEF Reply, Statuses
  <2>2. CASE \E w \in {"loaded", "collaborator"} : Await(r, w, target[r], None)
    <3>1. PICK w \in {"loaded", "collaborator"} : Await(r, w, target[r], None)
      BY <2>2
    <3>2. At(w, call[r], target[r], None) /\ target[r] \in Deck
      BY <1>1, <1>4 DEF LoadDeck, At
    <3> QED  BY <1>1, <1>2, <3>1, <3>2, AwaitOK DEF Awaiting
  <2> QED  BY <1>2, <1>4, <2>1, <2>2 DEF LoadDeck
<1>5. CASE LoadCollaborator(r)
  <2>1. CASE Reply(r, 403)
    BY <1>1, <1>2, <2>1, ReplyOK DEF Reply, Statuses
  <2>2. CASE Await(r, "loaded", target[r], None)
    <3>1. At("loaded", call[r], target[r], None) /\ target[r] \in Deck
      BY <1>1, <1>5 DEF LoadCollaborator, At
    <3> QED  BY <1>1, <1>2, <2>2, <3>1, AwaitOK DEF Awaiting
  <2> QED  BY <1>2, <1>5, <2>1, <2>2 DEF LoadCollaborator
<1> QED  BY <1>2, <1>3, <1>4, <1>5 DEF Access

LEMMA DeckServiceTyped ==
  ASSUME TypedOK, NEW r \in Request, DeckService(r)
  PROVE  TypedOK'
<1> USE DEF TypedOK, TypeOK
<1>1. At(pc[r], call[r], target[r], row[r]) /\ failures' \in Nat
      /\ call[r] \in Call
  BY DEF LocalsOK, DeckService, ListDecks, GetDeck, CreateDeck, UpdateDeck,
         DeleteDeck, RequestsTypeOK
<1>2. CASE ListDecks(r)
  BY <1>1, <1>2, ReplyOK DEF ListDecks, tables, TablesTypeOK, Statuses
<1>3. CASE GetDeck(r)
  BY <1>1, <1>3, ReplyOK DEF GetDeck, Reply, tables, TablesTypeOK, Statuses
<1>4. CASE CreateDeck(r)
  <2>1. call[r].deck \in Deck /\ call[r].user \in User
    BY <1>1, <1>4 DEF CreateDeck, Starting, At, CallOK
  <2>2. TablesTypeOK'
    BY <1>4, <2>1 DEF CreateDeck, InsertDeck, tables, TablesTypeOK
  <2> QED  BY <1>1, <1>4, <2>2, ReplyOK
           DEF CreateDeck, Reply, Statuses, PrismaStatus
<1>5. CASE UpdateDeck(r)
  <2>1. call[r].deck \in Deck
    BY <1>1, <1>5 DEF UpdateDeck, Loaded, At, CallOK, OnDeck
  <2>2. TablesTypeOK'
    BY <1>5, <2>1 DEF UpdateDeck, SetPublic, tables, TablesTypeOK
  <2> QED  BY <1>1, <1>5, <2>2, ReplyOK
           DEF UpdateDeck, Reply, Statuses, PrismaStatus
<1>6. CASE DeleteDeck(r)
  <2>1. TablesTypeOK'
    BY <1>6 DEF DeleteDeck, DropDeck, tables, TablesTypeOK
  <2> QED  BY <1>1, <1>6, <2>1, ReplyOK
           DEF DeleteDeck, Reply, Statuses, PrismaStatus
<1> QED  BY <1>2, <1>3, <1>4, <1>5, <1>6 DEF DeckService

LEMMA CardServiceTyped ==
  ASSUME TypedOK, NEW r \in Request, CardService(r)
  PROVE  TypedOK'
<1> USE DEF TypedOK, TypeOK
<1>1. At(pc[r], call[r], target[r], row[r]) /\ failures' \in Nat
      /\ call[r] \in Call
  BY DEF LocalsOK, CardService, ListCards, GetCard, CreateCard, UpdateCard,
         DeleteCard, RequestsTypeOK
<1>2. CASE ListCards(r)
  BY <1>1, <1>2, ReplyOK DEF ListCards, tables, TablesTypeOK, Statuses
<1>3. CASE GetCard(r)
  BY <1>1, <1>3, ReplyOK DEF GetCard, Reply, tables, TablesTypeOK, Statuses
<1>4. CASE CreateCard(r)
  <2>1. call[r].deck \in Deck
    BY <1>1, <1>4 DEF CreateCard, Loaded, At, CallOK, OnDeck
  <2>2. TablesTypeOK'
    BY <1>4, <2>1 DEF CreateCard, SetCardDeck, tables, TablesTypeOK
  <2> QED  BY <1>1, <1>4, <2>2, ReplyOK
           DEF CreateCard, Reply, Statuses, PrismaStatus
<1>5. CASE UpdateCard(r)
  BY <1>1, <1>5, ReplyOK
  DEF UpdateCard, Reply, Statuses, PrismaStatus, tables, TablesTypeOK
<1>6. CASE DeleteCard(r)
  <2>1. TablesTypeOK'
    BY <1>6 DEF DeleteCard, SetCardDeck, tables, TablesTypeOK
  <2> QED  BY <1>1, <1>6, <2>1, ReplyOK
           DEF DeleteCard, Reply, Statuses, PrismaStatus
<1> QED  BY <1>2, <1>3, <1>4, <1>5, <1>6 DEF CardService

LEMMA UserServiceTyped ==
  ASSUME TypedOK, NEW r \in Request, UserService(r)
  PROVE  TypedOK'
<1> USE DEF TypedOK, TypeOK
<1>1. At(pc[r], call[r], target[r], row[r]) /\ failures' \in Nat
  BY DEF LocalsOK, UserService, FindUser, UpdateUser, DeleteUser,
         RequestsTypeOK
<1>2. CASE FindUser(r)
  <2>1. TablesTypeOK'
    BY <1>2 DEF FindUser, tables, TablesTypeOK
  <2>2. CASE Await(r, "write", None, None)
    <3>1. At("write", call[r], None, None)
      BY <1>1, <1>2 DEF FindUser, At
    <3> QED  BY <1>1, <2>1, <2>2, <3>1, AwaitOK DEF Awaiting
  <2>3. CASE \E s \in {200, 404} : Reply(r, s)
    BY <1>1, <2>1, <2>3, ReplyOK DEF Reply, Statuses
  <2> QED  BY <1>2, <2>2, <2>3 DEF FindUser
<1>3. CASE UpdateUser(r)
  BY <1>1, <1>3, ReplyOK
  DEF UpdateUser, Reply, Statuses, PrismaStatus, tables, TablesTypeOK
<1>4. CASE DeleteUser(r)
  <2>1. TablesTypeOK'
    BY <1>4 DEF DeleteUser, DropUser, tables, TablesTypeOK
  <2> QED  BY <1>1, <1>4, <2>1, ReplyOK
           DEF DeleteUser, Reply, Statuses, PrismaStatus
<1> QED  BY <1>2, <1>3, <1>4 DEF UserService

LEMMA ReviewServiceTyped ==
  ASSUME TypedOK, NEW r \in Request, ReviewService(r)
  PROVE  TypedOK'
<1> USE DEF TypedOK, TypeOK
<1>1. At(pc[r], call[r], target[r], row[r]) /\ failures' \in Nat
      /\ call[r] \in Call /\ row[r] \in ProgressRow \cup {None}
      /\ pc[r] # "done"
  BY DEF LocalsOK, ReviewService, GetCardProgress, Compute, CreateReview,
         UpsertProgress, ListDue, RequestsTypeOK
<1>2. call[r].user \in User
  BY <1>1 DEF At, CallOK
<1>3. CASE GetCardProgress(r)
  <2>1. TablesTypeOK'
    BY <1>3 DEF GetCardProgress, tables, TablesTypeOK
  <2>2. CASE \E s \in {200, 404} : Reply(r, s)
    BY <1>1, <2>1, <2>2, ReplyOK DEF Reply, Statuses
  <2>3. CASE /\ call[r].op = "submitReview"
             /\ Await(r, "compute", None, Progress(r))
    <3>1. call[r].card \in Card
      BY <1>1, <2>3 DEF At, CallOK, OnCard
    <3>2. Progress(r) \in ProgressRow \cup {None}
      BY <1>2, <3>1 DEF Progress, TablesTypeOK
    <3>3. At("compute", call[r], None, Progress(r))
      BY <1>1, <2>3 DEF At
    <3> QED  BY <1>1, <2>1, <2>3, <3>2, <3>3, AwaitOK DEF Awaiting
  <2> QED  BY <1>3, <2>2, <2>3 DEF GetCardProgress
<1>4. CASE Compute(r)
  <2>1. TablesTypeOK'
    BY <1>4 DEF Compute, tables, TablesTypeOK
  <2> DEFINE next(s) ==
        [ease |-> s.ease, count |-> s.count, streak |-> s.streak,
         interval |-> s.interval, last |-> clock,
         next |-> clock + s.interval * Day]
  <2>2. PICK s \in Sm2(Existing(r), call[r].quality) :
          Await(r, "review", None, next(s))
    BY <1>4 DEF Compute
  <2>3. Shape(Existing(r))
    BY <1>1 DEF Existing, NewCard, DefaultEase, Shape, ProgressRow
  <2>4. call[r].quality \in 0..5
    BY <1>1 DEF Call
  <2>5. Shape(s)
    BY <2>2, <2>3, <2>4, Sm2Nat
  <2>6. next(s) \in ProgressRow
    <3>1. clock \in Nat /\ s.interval * Day \in Nat
      BY <2>5, ReviewsAssumption DEF Shape, TablesTypeOK
    <3> QED  BY <2>5, <3>1 DEF Shape, ProgressRow
  <2>7. At("review", call[r], None, next(s))
    BY <1>1, <1>4, <2>6 DEF Compute, At
  <2> HIDE DEF next
  <2> QED  BY <1>1, <2>1, <2>2, <2>6, <2>7, AwaitOK DEF Awaiting
<1>5. CASE CreateReview(r)
  <2>0. call[r].card \in Card /\ row[r] \in ProgressRow
    BY <1>1, <1>5 DEF CreateReview, At, CallOK, OnCard
  <2>1. TablesTypeOK'
    <3>1. CASE UNCHANGED tables
      BY <1>5, <3>1 DEF CreateReview, tables, TablesTypeOK
    <3>2. CASE InsertReview([user |-> call[r].user, card |-> call[r].card,
                             at |-> clock, quality |-> call[r].quality,
                             ease |-> row[r].ease,
                             interval |-> row[r].interval])
      <4>1. call[r].quality \in 0..5 /\ clock \in Nat
            /\ row[r].ease \in Nat /\ row[r].interval \in Nat
        BY <1>1, <2>0 DEF Call, ProgressRow, TablesTypeOK
      <4>2. reviews' \subseteq ReviewRow
        BY <1>2, <2>0, <3>2, <4>1 DEF InsertReview, ReviewRow, TablesTypeOK
      <4> QED  BY <1>5, <3>2, <4>2 DEF CreateReview, InsertReview, TablesTypeOK
    <3> QED  BY <1>5, <3>1, <3>2 DEF CreateReview
  <2>2. CASE \E s \in {400, 409} : Reply(r, s)
    BY <1>1, <2>1, <2>2, ReplyOK DEF Reply, Statuses
  <2>3. CASE Await(r, "upsert", None, row[r])
    <3>1. At("upsert", call[r], None, row[r])
      BY <1>1, <1>5 DEF CreateReview, At
    <3> QED  BY <1>1, <2>1, <2>3, <3>1, AwaitOK DEF Awaiting
  <2> QED  BY <1>5, <2>2, <2>3 DEF CreateReview, PrismaStatus
<1>6. CASE UpsertProgress(r)
  <2>1. row[r] \in ProgressRow
    BY <1>1, <1>6 DEF UpsertProgress, At
  <2>2. TablesTypeOK'
    BY <1>6, <2>1 DEF UpsertProgress, SetProgress, tables, TablesTypeOK
  <2> QED  BY <1>1, <1>6, <2>2, ReplyOK DEF UpsertProgress, Reply, Statuses
<1>7. CASE ListDue(r)
  <2>1. TablesTypeOK'
    BY <1>7 DEF ListDue, tables, TablesTypeOK
  <2>2. PICK ids \in SUBSET (Deck \cup Card) : ReplyRows(r, 200, ids)
    BY <1>7 DEF ListDue
  <2> QED  BY <1>1, <2>1, <2>2, ReplyOK DEF Statuses
<1> QED  BY <1>3, <1>4, <1>5, <1>6, <1>7 DEF ReviewService

LEMMA NextTyped ==
  ASSUME TypedOK, [Next]_vars
  PROVE  TypedOK'
<1> USE DEF TypedOK, TypeOK
<1>1. CASE \E r \in Request :
             \/ Arrive(r) \/ Access(r) \/ DeckService(r) \/ CardService(r)
             \/ UserService(r) \/ ReviewService(r)
  BY <1>1, ArriveTyped, AccessTyped, DeckServiceTyped, CardServiceTyped,
     UserServiceTyped, ReviewServiceTyped
<1>2. CASE \E r \in Request : Interrupted(r)
  <2>1. PICK r \in Request : Interrupted(r)
    BY <1>2
  <2>2. TablesTypeOK' /\ failures' \in Nat
    BY <2>1 DEF Interrupted, tables, TablesTypeOK, RequestsTypeOK
  <2> QED  BY <2>1, <2>2, ReplyOK DEF Interrupted, Reply, Statuses
<1>3. CASE Collaboration
  <2>1. PICK d \in Deck, u \in User, ro \in Role :
          SetRole(d, u, ro) /\ UNCHANGED <<locals, clock, failures>>
    BY <1>3 DEF Collaboration, Share, Unshare, Role
  <2>2. TablesTypeOK'
    BY <2>1 DEF SetRole, TablesTypeOK
  <2>3. RequestsTypeOK' /\ LocalsOK'
    BY <2>1 DEF locals, RequestsTypeOK, LocalsOK, At, CallOK
  <2> QED  BY <2>2, <2>3
<1>4. CASE Tick
  <2>1. TablesTypeOK'
    BY <1>4 DEF Tick, tables, TablesTypeOK
  <2>2. RequestsTypeOK' /\ LocalsOK'
    BY <1>4 DEF Tick, locals, RequestsTypeOK, LocalsOK, At, CallOK
  <2> QED  BY <2>1, <2>2
<1>5. CASE UNCHANGED vars
  <2>1. TablesTypeOK'
    BY <1>5 DEF vars, tables, TablesTypeOK
  <2>2. RequestsTypeOK' /\ LocalsOK'
    BY <1>5 DEF vars, locals, RequestsTypeOK, LocalsOK, At, CallOK
  <2> QED  BY <2>1, <2>2
<1> QED  BY <1>1, <1>2, <1>3, <1>4, <1>5 DEF Next

LEMMA InitTyped == Init => TypedOK
<1> SUFFICES ASSUME Init PROVE TypedOK
  OBVIOUS
<1>1. NoCall \in Call
  BY DEF NoCall, Call, Operation, OnDeck, OnCard, OnUser, Flag
<1>2. TablesTypeOK
  BY DEF Init, TablesInit, TablesTypeOK, Role
<1>3. RequestsTypeOK
  BY <1>1 DEF Init, RequestsInit, RequestsTypeOK, Statuses, NoAnswer
<1>4. LocalsOK
  BY DEF Init, RequestsInit, LocalsOK, At
<1> QED  BY <1>2, <1>3, <1>4 DEF TypedOK, TypeOK

LEMMA AlwaysTyped == Spec => []TypedOK
BY InitTyped, NextTyped, PTL DEF Spec

(* Every table and every local of every request keeps its type, for any     *)
(* number of users, decks, cards and concurrent requests.                   *)
THEOREM TypeCorrect == Spec => []TypeOK
<1>1. TypedOK => TypeOK
  BY DEF TypedOK
<1> QED  BY <1>1, AlwaysTyped, PTL

-----------------------------------------------------------------------------
(* References.  First the statements, each under the condition its service  *)
(* checks or the database enforces; then the requests that issue them.      *)

LEMMA InsertDeckReferences ==
  ASSUME TablesTypeOK, References, NEW d \in Deck, NEW u \in users, NEW flag,
         InsertDeck(d, u, flag)
  PROVE  References'
<1>1. \A x \in Deck : owner'[x] = IF x = d THEN u ELSE owner[x]
  BY DEF InsertDeck, TablesTypeOK
<1>2. u # None
  BY NoneAssumption DEF TablesTypeOK
<1> QED  BY <1>1, <1>2 DEF InsertDeck, TablesTypeOK, References

LEMMA DropDeckReferences ==
  ASSUME TablesTypeOK, References, NEW d \in Deck, ~DeckReferenced(d),
         DropDeck(d)
  PROVE  References'
<1>1. \A x \in Deck : owner'[x] = IF x = d THEN None ELSE owner[x]
  BY DEF DropDeck, TablesTypeOK
<1> QED  BY <1>1 DEF DropDeck, DeckReferenced, TablesTypeOK, References

LEMMA FillCardReferences ==
  ASSUME TablesTypeOK, References, NEW c \in Card, NEW d \in Deck,
         owner[d] # None, SetCardDeck(c, d)
  PROVE  References'
<1>1. \A x \in Card : cardDeck'[x] = IF x = c THEN d ELSE cardDeck[x]
  BY DEF SetCardDeck, TablesTypeOK
<1>2. d # None
  BY NoneAssumption
<1>3. \A v \in reviews : v.card \in Card
  BY DEF TablesTypeOK, ReviewRow
<1> QED  BY <1>1, <1>2, <1>3 DEF SetCardDeck, TablesTypeOK, References

LEMMA DropCardReferences ==
  ASSUME TablesTypeOK, References, NEW c \in Card, ~CardReferenced(c),
         SetCardDeck(c, None)
  PROVE  References'
<1>1. \A x \in Card : cardDeck'[x] = IF x = c THEN None ELSE cardDeck[x]
  BY DEF SetCardDeck, TablesTypeOK
<1>2. \A v \in reviews : v.card \in Card
  BY DEF TablesTypeOK, ReviewRow
<1> QED  BY <1>1, <1>2 DEF SetCardDeck, CardReferenced, TablesTypeOK, References

LEMMA DropUserReferences ==
  ASSUME TablesTypeOK, References, NEW u \in User, ~UserReferenced(u),
         DropUser(u)
  PROVE  References'
<1>1. \A x : x \in users' <=> x \in users /\ x # u
  BY DEF DropUser
<1> QED  BY <1>1 DEF DropUser, UserReferenced, TablesTypeOK, References

LEMMA SetRoleReferences ==
  ASSUME TablesTypeOK, References, NEW d \in Deck, NEW u \in User, NEW ro,
         ro # "none" => owner[d] # None /\ u \in users,
         SetRole(d, u, ro)
  PROVE  References'
<1>1. \A x \in Deck, y \in User :
        role'[<<x, y>>] = IF x = d /\ y = u THEN ro ELSE role[<<x, y>>]
  BY DEF SetRole, TablesTypeOK
<1> QED  BY <1>1 DEF SetRole, References

LEMMA InsertReviewReferences ==
  ASSUME References, NEW v, v.user \in users, cardDeck[v.card] # None,
         InsertReview(v)
  PROVE  References'
<1>1. \A x \in reviews' : x \in reviews \/ x = v
  BY DEF InsertReview
<1> QED  BY <1>1 DEF InsertReview, References

LEMMA SetProgressReferences ==
  ASSUME TablesTypeOK, References, NEW u \in users, NEW c \in Card,
         cardDeck[c] # None, NEW p, SetProgress(u, c, p)
  PROVE  References'
<1>1. \A x \in User, y \in Card :
        progress'[<<x, y>>] = IF x = u /\ y = c THEN p ELSE progress[<<x, y>>]
  BY DEF SetProgress, TablesTypeOK
<1> QED  BY <1>1 DEF SetProgress, References

LEMMA SameReferences ==
  ASSUME References, UNCHANGED <<users, owner, role, cardDeck, progress, reviews>>
  PROVE  References'
BY DEF References

LEMMA ServicesReferences ==
  ASSUME IInv, NEW r \in Request,
         DeckService(r) \/ CardService(r) \/ UserService(r)
  PROVE  References'
<1> USE DEF IInv, TypeOK
<1>1. At(pc[r], call[r], target[r], row[r])
  BY DEF LocalsOK
<1>2. CASE UNCHANGED tables
  BY <1>2, SameReferences DEF tables
<1>3. CASE CreateDeck(r)
  <2>1. call[r].deck \in Deck
    BY <1>1, <1>3 DEF CreateDeck, Starting, At, CallOK
  <2> QED  BY <1>2, <1>3, <2>1, InsertDeckReferences DEF CreateDeck
<1>4. CASE UpdateDeck(r)
  BY <1>2, <1>4, SameReferences DEF UpdateDeck, SetPublic
<1>5. CASE DeleteDeck(r)
  <2>1. call[r].deck \in Deck
    BY <1>1, <1>5 DEF DeleteDeck, Loaded, At, CallOK, OnDeck
  <2> QED  BY <1>2, <1>5, <2>1, DropDeckReferences DEF DeleteDeck
<1>6. CASE CreateCard(r)
  <2>1. call[r].deck \in Deck /\ call[r].card \in Card
    BY <1>1, <1>6 DEF CreateCard, Loaded, At, CallOK, OnDeck
  <2> QED  BY <1>2, <1>6, <2>1, FillCardReferences DEF CreateCard
<1>7. CASE DeleteCard(r)
  <2>1. call[r].card \in Card
    BY <1>1, <1>7 DEF DeleteCard, Loaded, At, CallOK, OnCard
  <2> QED  BY <1>2, <1>7, <2>1, DropCardReferences DEF DeleteCard
<1>8. CASE DeleteUser(r)
  <2>1. call[r].subject \in User
    BY <1>1, <1>8 DEF DeleteUser, At, CallOK, OnUser
  <2> QED  BY <1>2, <1>8, <2>1, DropUserReferences DEF DeleteUser
<1> QED  BY <1>2, <1>3, <1>4, <1>5, <1>6, <1>7, <1>8
         DEF DeckService, CardService, UserService, ListDecks, GetDeck,
             ListCards, GetCard, UpdateCard, FindUser, UpdateUser

LEMMA ReviewReferences ==
  ASSUME IInv, NEW r \in Request, ReviewService(r)
  PROVE  References'
<1> USE DEF IInv, TypeOK
<1>1. At(pc[r], call[r], target[r], row[r])
  BY DEF LocalsOK
<1>2. CASE UNCHANGED tables
  BY <1>2, SameReferences DEF tables
<1>3. CASE CreateReview(r)
  <2>1. CASE call[r].user \in users /\ cardDeck[call[r].card] # None
             /\ InsertReview([user |-> call[r].user, card |-> call[r].card,
                              at |-> clock, quality |-> call[r].quality,
                              ease |-> row[r].ease,
                              interval |-> row[r].interval])
    BY <2>1, InsertReviewReferences
  <2> QED  BY <1>2, <1>3, <2>1 DEF CreateReview
<1>4. CASE UpsertProgress(r)
  <2>1. call[r].card \in Card
    BY <1>1, <1>4 DEF UpsertProgress, At, CallOK, OnCard
  <2>2. call[r].user \in users /\ cardDeck[call[r].card] # None
    BY <1>4 DEF UpsertProgress, UpsertPinned, References
  <2> QED  BY <1>2, <1>4, <2>1, <2>2, SetProgressReferences DEF UpsertProgress
<1> QED  BY <1>2, <1>3, <1>4
         DEF ReviewService, GetCardProgress, Compute, ListDue

LEMMA NextReferences ==
  ASSUME IInv, [Next]_vars
  PROVE  References'
<1> USE DEF IInv, TypeOK
<1>1. CASE \E r \in Request : Arrive(r) \/ Access(r) \/ Interrupted(r)
  BY <1>1, SameReferences
  DEF Arrive, Access, LoadCard, LoadDeck, LoadCollaborator, Interrupted, tables
<1>2. CASE \E r \in Request :
             DeckService(r) \/ CardService(r) \/ UserService(r)
  BY <1>2, ServicesReferences
<1>3. CASE \E r \in Request : ReviewService(r)
  BY <1>3, ReviewReferences
<1>4. CASE Collaboration
  <2>1. PICK d \in Deck, u \in User, ro \in Role :
          /\ ro # "none" => owner[d] # None /\ u \in users
          /\ SetRole(d, u, ro)
    BY <1>4 DEF Collaboration, Share, Unshare, Role
  <2> QED  BY <2>1, SetRoleReferences
<1>5. CASE Tick \/ UNCHANGED vars
  BY <1>5, SameReferences DEF Tick, vars, tables
<1> QED  BY <1>1, <1>2, <1>3, <1>4, <1>5 DEF Next

(* A pending upsert keeps the review it follows: reviews are never deleted. *)

LEMMA NoReviewLost ==
  ASSUME IInv, [Next]_vars
  PROVE  reviews \subseteq reviews'
<1>1. ASSUME NEW r \in Request, Arrive(r) \/ Access(r) \/ Interrupted(r)
      PROVE  UNCHANGED reviews
  BY <1>1
  DEF Arrive, Access, LoadCard, LoadDeck, LoadCollaborator, Interrupted, tables
<1>2. ASSUME NEW r \in Request, DeckService(r)
      PROVE  UNCHANGED reviews
  BY <1>2
  DEF DeckService, ListDecks, GetDeck, CreateDeck, UpdateDeck, DeleteDeck,
      InsertDeck, DropDeck, SetPublic, tables
<1>3. ASSUME NEW r \in Request, CardService(r) \/ UserService(r)
      PROVE  UNCHANGED reviews
  BY <1>3
  DEF CardService, ListCards, GetCard, CreateCard, UpdateCard, DeleteCard,
      UserService, FindUser, UpdateUser, DeleteUser, SetCardDeck, DropUser,
      tables
<1>4. ASSUME NEW r \in Request, ReviewService(r)
      PROVE  reviews \subseteq reviews'
  BY <1>4
  DEF ReviewService, GetCardProgress, Compute, CreateReview, UpsertProgress,
      ListDue, InsertReview, SetProgress, tables
<1>5. CASE Collaboration \/ Tick \/ UNCHANGED vars
  BY <1>5 DEF Collaboration, Share, Unshare, SetRole, Tick, vars, tables
<1> QED  BY <1>1, <1>2, <1>3, <1>4, <1>5 DEF Next

LEMMA PinnedReply ==
  ASSUME RequestsTypeOK, UpsertPinned, reviews \subseteq reviews',
         NEW r \in Request, NEW s, NEW ids, ReplyRows(r, s, ids)
  PROVE  UpsertPinned'
<1> SUFFICES ASSUME NEW q \in Request, pc'[q] = "upsert"
             PROVE  \E v \in reviews' : /\ v.user = call'[q].user
                                        /\ v.card = call'[q].card
  BY DEF UpsertPinned
<1>1. q # r
  BY DEF ReplyRows, RequestsTypeOK
<1>2. pc[q] = "upsert" /\ call'[q] = call[q]
  BY <1>1 DEF ReplyRows, RequestsTypeOK
<1> QED  BY <1>2 DEF UpsertPinned

LEMMA PinnedAwait ==
  ASSUME RequestsTypeOK, UpsertPinned, reviews \subseteq reviews',
         NEW r \in Request, NEW next, NEW d, NEW p, Await(r, next, d, p),
         next = "upsert" =>
           \E v \in reviews' : v.user = call[r].user /\ v.card = call[r].card
  PROVE  UpsertPinned'
<1> SUFFICES ASSUME NEW q \in Request, pc'[q] = "upsert"
             PROVE  \E v \in reviews' : /\ v.user = call'[q].user
                                        /\ v.card = call'[q].card
  BY DEF UpsertPinned
<1>1. call' = call /\ pc'[q] = IF q = r THEN next ELSE pc[q]
  BY DEF Await, RequestsTypeOK
<1> QED  BY <1>1 DEF UpsertPinned

LEMMA NextPinned ==
  ASSUME IInv, [Next]_vars
  PROVE  UpsertPinned'
<1> USE DEF IInv, TypeOK
<1>1. reviews \subseteq reviews'
  BY NoReviewLost
<1>2. ASSUME NEW r \in Request, NEW s, NEW ids, ReplyRows(r, s, ids)
      PROVE  UpsertPinned'
  BY <1>1, <1>2, PinnedReply
<1>3. ASSUME NEW r \in Request, NEW w, NEW d, NEW p, w # "upsert",
             Await(r, w, d, p)
      PROVE  UpsertPinned'
  BY <1>1, <1>3, PinnedAwait
<1>4. CASE UNCHANGED <<pc, call>>
  BY <1>1, <1>4 DEF UpsertPinned
<1>5. ASSUME NEW r \in Request, Arrive(r)
      PROVE  UpsertPinned'
  <2>1. PICK c \in ClientCalls :
          \/ /\ pc' = [pc EXCEPT ![r] = FirstAwait(c.op)]
             /\ call' = [call EXCEPT ![r] = c]
          \/ UNCHANGED <<pc, call>>
    BY <1>5 DEF Arrive
  <2>2. FirstAwait(c.op) # "upsert"
    BY DEF FirstAwait
  <2> QED  BY <1>1, <1>4, <2>1, <2>2 DEF UpsertPinned, RequestsTypeOK
<1>6. ASSUME NEW r \in Request, CreateReview(r)
      PROVE  UpsertPinned'
  <2>1. CASE \E v \in reviews' :
               /\ v.user = call[r].user /\ v.card = call[r].card
               /\ Await(r, "upsert", None, row[r])
    BY <1>1, <2>1, PinnedAwait
  <2>2. ASSUME NEW v, v.user = call[r].user, v.card = call[r].card,
               InsertReview(v)
        PROVE  \E w \in reviews' : w.user = call[r].user /\ w.card = call[r].card
    BY <2>2 DEF InsertReview
  <2>3. CASE Await(r, "upsert", None, row[r]) /\ \E v : /\ v.user = call[r].user
                                                       /\ v.card = call[r].card
                                                       /\ InsertReview(v)
    BY <2>1, <2>2, <2>3
  <2> DEFINE new == [user |-> call[r].user, card |-> call[r].card, at |-> clock,
                     quality |-> call[r].quality, ease |-> row[r].ease,
                     interval |-> row[r].interval]
  <2>4. new.user = call[r].user /\ new.card = call[r].card
    OBVIOUS
  <2>5. \/ Reply(r, 409) \/ Reply(r, 400)
        \/ InsertReview(new) /\ Await(r, "upsert", None, row[r])
    BY <1>6 DEF CreateReview, PrismaStatus
  <2> HIDE DEF new
  <2> QED  BY <1>2, <2>3, <2>4, <2>5 DEF Reply
<1>7. CASE \E r \in Request :
             \/ Access(r) \/ Interrupted(r)
             \/ DeckService(r) \/ CardService(r) \/ UserService(r)
  BY <1>2, <1>3, <1>7
  DEF Access, LoadCard, LoadDeck, LoadCollaborator, Interrupted,
      DeckService, ListDecks, GetDeck, CreateDeck, UpdateDeck, DeleteDeck,
      CardService, ListCards, GetCard, CreateCard, UpdateCard, DeleteCard,
      UserService, FindUser, UpdateUser, DeleteUser, Reply
<1>8. CASE \E r \in Request : ReviewService(r)
  BY <1>2, <1>3, <1>6, <1>8
  DEF ReviewService, GetCardProgress, Compute, UpsertProgress, ListDue, Reply
<1>9. CASE Collaboration \/ Tick \/ UNCHANGED vars
  BY <1>4, <1>9 DEF Collaboration, Share, Unshare, Tick, vars, locals
<1> QED  BY <1>5, <1>7, <1>8, <1>9 DEF Next

LEMMA InitIInv == Init => IInv
<1> SUFFICES ASSUME Init PROVE IInv
  OBVIOUS
<1>1. TypeOK /\ LocalsOK
  BY InitTyped DEF TypedOK
<1>2. References
  BY DEF Init, TablesInit, References
<1>3. UpsertPinned
  BY DEF Init, RequestsInit, UpsertPinned
<1> QED  BY <1>1, <1>2, <1>3 DEF IInv

LEMMA NextIInv == IInv /\ [Next]_vars => IInv'
<1> SUFFICES ASSUME IInv, [Next]_vars PROVE IInv'
  OBVIOUS
<1>1. TypeOK' /\ LocalsOK'
  BY NextTyped DEF IInv, TypedOK
<1> QED  BY <1>1, NextReferences, NextPinned DEF IInv

LEMMA AlwaysIInv == Spec => []IInv
BY InitIInv, NextIInv, PTL DEF Spec

(* Whatever deletes and inserts interleave, no row of the database refers   *)
(* to a row that is gone; the progress that submitReview writes without     *)
(* looking is held in place by the review written just before it.           *)
THEOREM ReferencesHold == Spec => []References
<1>1. IInv => References
  BY DEF IInv
<1> QED  BY <1>1, AlwaysIInv, PTL

-----------------------------------------------------------------------------
(* The verdict of loadDeck. *)

Verdicts ==
  \A r \in Request :
    pc[r] # "loaded" /\ pc'[r] = "loaded"
      => Permitted(call[r].user, target[r], ActionOf(call[r].op))

LEMMA VerdictStep ==
  ASSUME IInv, [Next]_vars
  PROVE  Verdicts
<1> USE DEF IInv, TypeOK
<1> SUFFICES ASSUME NEW q \in Request, pc[q] # "loaded", pc'[q] = "loaded"
             PROVE  Permitted(call[q].user, target[q], ActionOf(call[q].op))
  BY DEF Verdicts
<1>1. At(pc[q], call[q], target[q], row[q])
  BY DEF LocalsOK
<1>2. ActionOf(call[q].op) \in {"read", "edit", "delete"}
  BY DEF ActionOf
<1>3. ASSUME NEW r \in Request, NEW s, NEW ids, ReplyRows(r, s, ids)
      PROVE  FALSE
  BY <1>3 DEF ReplyRows, RequestsTypeOK
<1>4. ASSUME NEW r \in Request, NEW w, NEW d, NEW p, w # "loaded",
             Await(r, w, d, p)
      PROVE  FALSE
  BY <1>4 DEF Await, RequestsTypeOK
<1>5. ASSUME NEW r \in Request, LoadDeck(r)
      PROVE  Permitted(call[q].user, target[q], ActionOf(call[q].op))
  <2>1. /\ q = r /\ owner[target[q]] # None
        /\ DeckGrants(call[q].user, target[q], ActionOf(call[q].op))
    BY <1>3, <1>5 DEF LoadDeck, Await, Reply, RequestsTypeOK
  <2> QED  BY <2>1 DEF DeckGrants, Permitted
<1>6. ASSUME NEW r \in Request, LoadCollaborator(r)
      PROVE  Permitted(call[q].user, target[q], ActionOf(call[q].op))
  <2>1. /\ q = r
        /\ pc[q] = "collaborator"
        /\ RoleGrants(role[<<target[q], call[q].user>>], ActionOf(call[q].op))
    BY <1>3, <1>6 DEF LoadCollaborator, Await, Reply, RequestsTypeOK
  <2>2. target[q] \in Deck /\ call[q].user \in User
    BY <1>1, <2>1 DEF At, CallOK
  <2>3. owner[target[q]] # None
    BY <2>1, <2>2 DEF RoleGrants, References
  <2>4. role[<<target[q], call[q].user>>] \in Role
    BY <2>2 DEF TablesTypeOK
  <2> QED  BY <1>2, <2>1, <2>3, <2>4 DEF RoleGrants, Permitted, Role
<1>7. CASE \E r \in Request : Arrive(r)
  BY <1>7 DEF Arrive, FirstAwait, RequestsTypeOK
<1>8. ASSUME NEW r \in Request, LoadCard(r) \/ Interrupted(r)
      PROVE  FALSE
  BY <1>3, <1>4, <1>8 DEF LoadCard, Interrupted, Reply
<1>9. ASSUME NEW r \in Request, DeckService(r)
      PROVE  FALSE
  BY <1>3, <1>9
  DEF DeckService, ListDecks, GetDeck, CreateDeck, UpdateDeck, DeleteDeck, Reply
<1>10. ASSUME NEW r \in Request, CardService(r) \/ UserService(r)
       PROVE  FALSE
  BY <1>3, <1>4, <1>10
  DEF CardService, ListCards, GetCard, CreateCard, UpdateCard, DeleteCard,
      UserService, FindUser, UpdateUser, DeleteUser, Reply
<1>11. ASSUME NEW r \in Request, ReviewService(r)
       PROVE  FALSE
  BY <1>3, <1>4, <1>11
  DEF ReviewService, GetCardProgress, Compute, CreateReview, UpsertProgress,
      ListDue, Reply
<1>12. CASE Collaboration \/ Tick \/ UNCHANGED vars
  BY <1>12 DEF Collaboration, Share, Unshare, Tick, vars, locals
<1> QED  BY <1>5, <1>6, <1>7, <1>8, <1>9, <1>10, <1>11, <1>12 DEF Next, Access

(* Although loadDeck may decide from a deck row that has changed since, a   *)
(* request it lets through is permitted its action at that very moment,     *)
(* with any number of requests, updates and collaborator changes around it. *)
THEOREM VerdictsAreSound == Spec => VerdictSound
<1>1. IInv /\ [Next]_vars => [Verdicts]_vars
  BY VerdictStep
<1>2. VerdictSound <=> [][Verdicts]_vars
  BY DEF VerdictSound, Verdicts
<1> QED  BY <1>1, <1>2, AlwaysIInv, PTL DEF Spec

-----------------------------------------------------------------------------
(* Which requests there are: those the slots carry.                        *)

LEMMA CallStays ==
  ASSUME IInv, [Next]_vars, NEW q \in Request, pc'[q] # "done"
  PROVE  \/ pc[q] # "done" /\ call'[q] = call[q]
         \/ <<call'[q].user, call'[q].op>> \in Traffic[q]
<1> USE DEF IInv, TypeOK, RequestsTypeOK
<1>1. ASSUME NEW r \in Request, NEW s, NEW ids, ReplyRows(r, s, ids)
      PROVE  pc[q] # "done" /\ call'[q] = call[q]
  BY <1>1 DEF ReplyRows
<1>2. ASSUME NEW r \in Request, NEW w, NEW d, NEW p, Await(r, w, d, p), pc[r] # "done"
      PROVE  pc[q] # "done" /\ call'[q] = call[q]
  BY <1>2 DEF Await
<1>3. ASSUME NEW r \in Request, Arrive(r)
      PROVE  \/ pc[q] # "done" /\ call'[q] = call[q]
             \/ <<call'[q].user, call'[q].op>> \in Traffic[q]
  BY <1>3 DEF Arrive
<1>4. ASSUME NEW r \in Request, Access(r) \/ Interrupted(r) \/ UserService(r)
      PROVE  pc[q] # "done" /\ call'[q] = call[q]
  BY <1>1, <1>2, <1>4
  DEF Access, LoadCard, LoadDeck, LoadCollaborator, Interrupted, Reply,
      UserService, FindUser, UpdateUser, DeleteUser
<1>5. ASSUME NEW r \in Request, DeckService(r) \/ CardService(r)
      PROVE  pc[q] # "done" /\ call'[q] = call[q]
  BY <1>1, <1>5
  DEF DeckService, ListDecks, GetDeck, CreateDeck, UpdateDeck, DeleteDeck,
      CardService, ListCards, GetCard, CreateCard, UpdateCard, DeleteCard, Reply
<1>6. ASSUME NEW r \in Request, ReviewService(r)
      PROVE  pc[q] # "done" /\ call'[q] = call[q]
  BY <1>1, <1>2, <1>6
  DEF ReviewService, GetCardProgress, Compute, CreateReview, UpsertProgress,
      ListDue, Reply
<1>7. CASE Collaboration \/ Tick \/ UNCHANGED vars
  BY <1>7 DEF Collaboration, Share, Unshare, Tick, vars, locals
<1> QED  BY <1>3, <1>4, <1>5, <1>6, <1>7 DEF Next

LEMMA NextAInv ==
  ASSUME AInv, [Next]_vars
  PROVE  AInv'
BY NextIInv, CallStays DEF AInv, Admitted

LEMMA AlwaysAInv == Spec => []AInv
<1>1. Init => AInv
  BY InitIInv DEF AInv, Admitted, Init, RequestsInit
<1> QED  BY <1>1, NextAInv, PTL DEF Spec

-----------------------------------------------------------------------------
(* Collections.                                                            *)

LEMMA VisibleMeansPermitted ==
  ASSUME IInv, NEW u \in User, NEW d \in Deck, owner[d] # None, VisibleDeckScope(u, d)
  PROVE  Permitted(u, d, "read")
<1>1. role[<<d, u>>] \in Role
  BY DEF IInv, TypeOK, TablesTypeOK
<1> QED  BY <1>1 DEF Permitted, VisibleDeckScope, Role

LEMMA CollectionStep ==
  ASSUME Without("listCards"), AInv, [Next]_vars, NEW q \in Request,
         rows'[q] # rows[q], NEW x \in rows'[q]
  PROVE  Permitted(call[q].user, IF x \in Deck THEN x ELSE cardDeck[x], "read")
<1> USE DEF AInv, IInv, TypeOK, RequestsTypeOK
<1>0. At(pc[q], call[q], target[q], row[q])
  BY DEF LocalsOK
<1>1. ASSUME NEW r \in Request, NEW s, NEW ids, ReplyRows(r, s, ids)
      PROVE  q = r /\ rows'[q] = ids
  BY <1>1 DEF ReplyRows
<1>2. ASSUME NEW r \in Request, NEW s, Reply(r, s)
      PROVE  FALSE
  BY <1>1, <1>2 DEF Reply
<1>3. ASSUME NEW r \in Request, NEW w, NEW d, NEW p, Await(r, w, d, p)
      PROVE  FALSE
  BY <1>3 DEF Await
<1>4. ASSUME NEW r \in Request, Arrive(r)
      PROVE  FALSE
  BY <1>4 DEF Arrive
<1>5. ASSUME NEW r \in Request, ListDecks(r)
      PROVE  Permitted(call[q].user, IF x \in Deck THEN x ELSE cardDeck[x], "read")
  <2>1. /\ r = q /\ x \in Deck /\ owner[x] # None
        /\ VisibleDeckScope(call[q].user, x) /\ call[q].user \in User
    BY <1>0, <1>1, <1>5 DEF ListDecks, Starting, At, CallOK
  <2> QED  BY <2>1, VisibleMeansPermitted
<1>6. ASSUME NEW r \in Request, ListDue(r)
      PROVE  Permitted(call[q].user, IF x \in Deck THEN x ELSE cardDeck[x], "read")
  <2>0. r = q /\ rows'[q] \subseteq
                  {c \in Card : cardDeck[c] # None /\ VisibleDeckScope(call[r].user, cardDeck[c])}
    <3>1. PICK ids : /\ ReplyRows(r, 200, ids)
                     /\ ids = {c \in Card : /\ cardDeck[c] # None
                                            /\ VisibleDeckScope(call[r].user, cardDeck[c])
                                            /\ progress[<<call[r].user, c>>] # None
                                            /\ progress[<<call[r].user, c>>].next <= clock}
      BY <1>6 DEF ListDue
    <3>2. r = q /\ rows'[q] = ids
      BY <1>1, <3>1
    <3> QED  BY <3>1, <3>2
  <2>1. /\ x \in Card /\ cardDeck[x] # None
        /\ VisibleDeckScope(call[q].user, cardDeck[x]) /\ call[q].user \in User
    BY <1>0, <1>6, <2>0 DEF ListDue, At, CallOK
  <2>2. cardDeck[x] \in Deck /\ owner[cardDeck[x]] # None /\ x \notin Deck
    BY <2>1, IdsAssumption DEF TablesTypeOK, References
  <2> QED  BY <2>1, <2>2, VisibleMeansPermitted
<1>7. ASSUME NEW r \in Request, ListCards(r)
      PROVE  FALSE
  <2>1. call[r].op = "listCards" /\ call[r].user \in User /\ pc[r] # "done"
    BY <1>7 DEF ListCards, Loaded, LocalsOK, At, CallOK
  <2> QED  BY <2>1 DEF Admitted, Without
<1>8. ASSUME NEW r \in Request, Access(r) \/ Interrupted(r) \/ UserService(r)
      PROVE  FALSE
  BY <1>2, <1>3, <1>8
  DEF Access, LoadCard, LoadDeck, LoadCollaborator, Interrupted,
      UserService, FindUser, UpdateUser, DeleteUser
<1>9. ASSUME NEW r \in Request,
             \/ GetDeck(r) \/ CreateDeck(r) \/ UpdateDeck(r) \/ DeleteDeck(r)
             \/ GetCard(r) \/ CreateCard(r) \/ UpdateCard(r) \/ DeleteCard(r)
      PROVE  FALSE
  BY <1>2, <1>9
  DEF GetDeck, CreateDeck, UpdateDeck, DeleteDeck, GetCard, CreateCard,
      UpdateCard, DeleteCard
<1>10. ASSUME NEW r \in Request,
              GetCardProgress(r) \/ Compute(r) \/ CreateReview(r) \/ UpsertProgress(r)
       PROVE  FALSE
  BY <1>2, <1>3, <1>10 DEF GetCardProgress, Compute, CreateReview, UpsertProgress
<1>11. CASE Collaboration \/ Tick \/ UNCHANGED vars
  BY <1>11 DEF Collaboration, Share, Unshare, Tick, vars, locals
<1> QED  BY <1>4, <1>5, <1>6, <1>7, <1>8, <1>9, <1>10, <1>11
         DEF Next, DeckService, CardService, ReviewService

(* The lists of decks and of due cards show only rows of decks that the     *)
(* requestor may read when the query runs.  A list of one deck's cards may  *)
(* come too late for that, so the statement is of traffic without it.       *)
THEOREM CollectionsAreScoped ==
  ASSUME Without("listCards")
  PROVE  Spec => CollectionsScoped
<1>1. AInv /\ [Next]_vars =>
        [\A r \in Request :
           rows'[r] # rows[r] =>
             \A x \in rows'[r] :
               Permitted(call[r].user, IF x \in Deck THEN x ELSE cardDeck[x], "read")]_vars
  BY CollectionStep
<1> QED  BY <1>1, AlwaysAInv, PTL DEF Spec, CollectionsScoped

-----------------------------------------------------------------------------
(* Statuses.                                                               *)

LEMMA AnswerStep ==
  ASSUME Without("submitReview"), AInv, [Next]_vars, NEW q \in Request,
         pc[q] # "done", pc'[q] = "done", answer'[q] # Lost
  PROVE  answer'[q] \in Documented(call[q].op)
<1> USE DEF AInv, IInv, TypeOK, RequestsTypeOK
<1>0. At(pc[q], call[q], target[q], row[q]) /\ call[q].op # "submitReview"
  <2>1. At(pc[q], call[q], target[q], row[q])
    BY DEF LocalsOK
  <2>2. call[q].user \in User
    BY <2>1 DEF At, CallOK
  <2> QED  BY <2>1, <2>2 DEF Admitted, Without
<1>1. ASSUME NEW r \in Request, NEW s, NEW ids, ReplyRows(r, s, ids)
      PROVE  q = r /\ answer'[q] = s
  BY <1>1 DEF ReplyRows
<1>2. ASSUME NEW r \in Request, NEW s, Reply(r, s)
      PROVE  q = r /\ answer'[q] = s
  BY <1>1, <1>2 DEF Reply
<1>3. ASSUME NEW r \in Request, NEW w \in Awaiting, NEW d, NEW p, Await(r, w, d, p)
      PROVE  FALSE
  BY <1>3 DEF Await, Awaiting
<1>4. ASSUME NEW r \in Request, Arrive(r)
      PROVE  FALSE
  BY <1>4 DEF Arrive
<1>5. ASSUME NEW r \in Request, Access(r)
      PROVE  answer'[q] \in Documented(call[q].op)
  <2>1. call[r].op \in OnDeck \cup OnCard
    BY <1>5 DEF Access, LoadCard, LoadDeck, LoadCollaborator, LocalsOK, At
  <2>2. q = r /\ answer'[q] \in {403, 404}
    BY <1>2, <1>3, <1>5 DEF Access, LoadCard, LoadDeck, LoadCollaborator, Awaiting
  <2> QED  BY <2>1, <2>2 DEF Documented, OnDeck, OnCard
<1>6. ASSUME NEW r \in Request, DeckService(r)
      PROVE  answer'[q] \in Documented(call[q].op)
  <2>1. q = r /\ \/ call[q].op \in {"listDecks", "getDeck"} /\ answer'[q] = 200
                 \/ call[q].op = "createDeck" /\ answer'[q] \in {201, 400}
                 \/ call[q].op \in {"updateDeck", "deleteDeck"} /\ answer'[q] \in {200, 400, 404}
    BY <1>1, <1>2, <1>6
    DEF DeckService, ListDecks, GetDeck, CreateDeck, UpdateDeck, DeleteDeck,
        Starting, Loaded, PrismaStatus
  <2> QED  BY <2>1 DEF Documented
<1>7. ASSUME NEW r \in Request, CardService(r)
      PROVE  answer'[q] \in Documented(call[q].op)
  <2>1. q = r /\ \/ call[q].op = "createCard" /\ answer'[q] \in {201, 400}
                 \/ /\ call[q].op \in {"listCards", "getCard", "updateCard", "deleteCard"}
                    /\ answer'[q] \in {200, 400, 404}
    BY <1>1, <1>2, <1>7
    DEF CardService, ListCards, GetCard, CreateCard, UpdateCard, DeleteCard,
        Loaded, PrismaStatus
  <2> QED  BY <2>1 DEF Documented
<1>8. ASSUME NEW r \in Request, UserService(r)
      PROVE  answer'[q] \in Documented(call[q].op)
  <2>1. q = r
    BY <1>2, <1>3, <1>8 DEF UserService, FindUser, UpdateUser, DeleteUser, Awaiting
  <2>2. call[q].op \in OnUser
    BY <1>0, <1>8, <2>1 DEF UserService, FindUser, UpdateUser, DeleteUser, At
  <2>3. \/ answer'[q] \in {200, 404}
        \/ call[q].op = "deleteUser" /\ answer'[q] = 400
    BY <1>2, <1>3, <1>8 DEF UserService, FindUser, UpdateUser, DeleteUser, PrismaStatus, Awaiting
  <2> QED  BY <2>2, <2>3 DEF Documented, OnUser
<1>9. ASSUME NEW r \in Request, GetCardProgress(r) \/ ListDue(r)
      PROVE  answer'[q] \in Documented(call[q].op)
  <2>1. q = r /\ \/ call[q].op = "getProgress" /\ answer'[q] \in {200, 404}
                 \/ call[q].op = "listDue" /\ answer'[q] = 200
    BY <1>1, <1>2, <1>3, <1>9 DEF GetCardProgress, ListDue, Awaiting
  <2> QED  BY <2>1 DEF Documented
<1>10. ASSUME NEW r \in Request, Compute(r) \/ CreateReview(r) \/ UpsertProgress(r)
       PROVE  FALSE
  <2>1. q = r
    BY <1>2, <1>3, <1>10 DEF Compute, CreateReview, UpsertProgress, Awaiting
  <2> QED  BY <1>0, <1>10, <2>1 DEF Compute, CreateReview, UpsertProgress, At
<1>11. ASSUME NEW r \in Request, Interrupted(r)
       PROVE  FALSE
  BY <1>2, <1>11 DEF Interrupted
<1>12. CASE Collaboration \/ Tick \/ UNCHANGED vars
  BY <1>12 DEF Collaboration, Share, Unshare, Tick, vars, locals
<1> QED  BY <1>4, <1>5, <1>6, <1>7, <1>8, <1>9, <1>10, <1>11, <1>12
         DEF Next, ReviewService

(* Whatever is deleted or hidden between an access decision and the write   *)
(* after it, a caller gets a status that openapi.ts lists.  Two submissions *)
(* of one review in one millisecond are the exception, hence the traffic.   *)
THEOREM AnswersAreDocumented ==
  ASSUME Without("submitReview")
  PROVE  Spec => DocumentedAnswer
<1>1. AInv /\ [Next]_vars =>
        [\A r \in Request :
           pc[r] # "done" /\ pc'[r] = "done" /\ answer'[r] # Lost
             => answer'[r] \in Documented(call[r].op)]_vars
  BY AnswerStep
<1> QED  BY <1>1, AlwaysAInv, PTL DEF Spec, DocumentedAnswer
=============================================================================
