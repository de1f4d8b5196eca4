------------------------------- MODULE Tables -------------------------------
(***************************************************************************)
(* The Postgres tables of prisma/schema.prisma that the services under     *)
(* src/services read and write.  A Prisma call is one autocommitted        *)
(* statement, so each statement of the model is one atomic step.           *)
(*                                                                         *)
(* A column the services never branch on (names, topics, card text) is not *)
(* represented.  Identifiers are UUIDs: `unused` holds those that were     *)
(* never handed out, and none is handed out twice.                         *)
(***************************************************************************)
EXTENDS Integers, FiniteSets, Sm2

CONSTANTS
  User,         \* ids of the "user" table
  Deck,         \* ids the "Deck" table may ever hold
  Card,         \* ids the "Card" table may ever hold
  None          \* SQL NULL, or no row

\* UserCardProgress without its key; ease is in hundredths, times in ticks.
ProgressRow == [ease : Nat, count : Nat, streak : Nat, interval : Nat,
                last : Nat, next : Nat]

\* UserCardReview; `at` is reviewedAt, the third part of its unique key.
ReviewRow == [user : User, card : Card, at : Nat, quality : 0..5,
              ease : Nat, interval : Nat]

ASSUME NoneAssumption == None \notin User \cup Deck \cup Card \cup ProgressRow

\* The default of both id columns is a fresh UUID.
ASSUME IdsAssumption == Deck \cap Card = {}

VARIABLES
  users,        \* ids with a row in "user"
  owner,        \* Deck.userId, None where there is no such deck
  public,       \* the decks with isPublic
  role,         \* DeckCollaborator.role by (deck, user), "none" without a row
  cardDeck,     \* Card.deckId, None where there is no such card
  unused,       \* deck and card ids never handed out
  progress,     \* UserCardProgress by (user, card)
  reviews,      \* the rows of UserCardReview
  clock         \* the time of day, in ticks: the database's and the server's

tables == <<users, owner, public, role, cardDeck, unused, progress, reviews>>

Role == {"EDITOR", "VIEWER", "none"}

\* Faulty variant: every constraint is reported as a conflict.
PrismaStatusConflict == [P2002 |-> 409, P2003 |-> 409, P2025 |-> 404]

\* handlePrismaError: the status a known Prisma error code is answered with.
PrismaStatus ==
  [P2002 |-> 409,      \* unique constraint
   P2003 |-> 400,      \* foreign key constraint
   P2025 |-> 404]      \* record to update or delete not found

TablesTypeOK ==
  /\ users \subseteq User
  /\ owner \in [Deck -> User \cup {None}]
  /\ public \subseteq Deck
  /\ role \in [Deck \X User -> Role]
  /\ cardDeck \in [Card -> Deck \cup {None}]
  /\ unused \subseteq Deck \cup Card
  /\ progress \in [User \X Card -> ProgressRow \cup {None}]
  /\ reviews \subseteq ReviewRow
  /\ clock \in Nat

\* A migrated database in which every user has signed up and nothing else.
TablesInit ==
  /\ users = User
  /\ owner = [d \in Deck |-> None]
  /\ public = {}
  /\ role = [p \in Deck \X User |-> "none"]
  /\ cardDeck = [c \in Card |-> None]
  /\ unused = Deck \cup Card
  /\ progress = [p \in User \X Card |-> None]
  /\ reviews = {}
  /\ clock = 0

-----------------------------------------------------------------------------
(***************************************************************************)
(* The rows a foreign key declared without onDelete (RESTRICT) protects.   *)
(***************************************************************************)
\* Faulty variants: one of the referencing tables is forgotten.
DeckReferencedByCards(d) == \E c \in Card : cardDeck[c] = d
CardReferencedByProgress(c) == \E u \in User : progress[<<u, c>>] # None

DeckReferenced(d) ==
  \/ \E c \in Card : cardDeck[c] = d
  \/ \E u \in User : role[<<d, u>>] # "none"

CardReferenced(c) ==
  \/ \E u \in User : progress[<<u, c>>] # None
  \/ \E v \in reviews : v.card = c

UserReferenced(u) ==
  \/ \E d \in Deck : owner[d] = u \/ role[<<d, u>>] # "none"
  \/ \E c \in Card : progress[<<u, c>>] # None
  \/ \E v \in reviews : v.user = u

\* Statements that change one table each; the caller has checked the keys.
InsertDeck(d, u, isPublic) ==
  /\ owner' = [owner EXCEPT ![d] = u]
  /\ public' = IF isPublic = "true" THEN public \cup {d} ELSE public
  /\ UNCHANGED <<users, role, cardDeck, unused, progress, reviews>>

DropDeck(d) ==
  /\ owner' = [owner EXCEPT ![d] = None]
  /\ public' = public \ {d}
  /\ UNCHANGED <<users, role, cardDeck, unused, progress, reviews>>

SetPublic(d, isPublic) ==
  /\ public' = IF isPublic = "true" THEN public \cup {d}
               ELSE IF isPublic = "false" THEN public \ {d} ELSE public
  /\ UNCHANGED <<users, owner, role, cardDeck, unused, progress, reviews>>

SetCardDeck(c, d) ==
  /\ cardDeck' = [cardDeck EXCEPT ![c] = d]
  /\ UNCHANGED <<users, owner, public, role, unused, progress, reviews>>

\* Sessions and accounts cascade with the user and are not tables of this module.
DropUser(u) ==
  /\ users' = users \ {u}
  /\ UNCHANGED <<owner, public, role, cardDeck, unused, progress, reviews>>

SetRole(d, u, ro) ==
  /\ role' = [role EXCEPT ![<<d, u>>] = ro]
  /\ UNCHANGED <<users, owner, public, cardDeck, unused, progress, reviews>>

InsertReview(v) ==
  /\ reviews' = reviews \cup {v}
  /\ UNCHANGED <<users, owner, public, role, cardDeck, unused, progress>>

SetProgress(u, c, p) ==
  /\ progress' = [progress EXCEPT ![<<u, c>>] = p]
  /\ UNCHANGED <<users, owner, public, role, cardDeck, unused, reviews>>

=============================================================================
