----------------------------- MODULE DeckAccess -----------------------------
(***************************************************************************)
(* src/services/deckAccess.service.ts: whether a requestor may do what an  *)
(* operation intends with a deck.  loadDeck decides from up to two reads   *)
(* with an await between them; visibleDeckScope is the same rule as one    *)
(* query's where clause.                                                   *)
(***************************************************************************)
EXTENDS Requests

\* The Action each service passes to loadDeck or loadCard.
ActionOf(op) ==
  IF op \in {"getDeck", "listCards", "getCard", "submitReview", "getProgress"}
  THEN "read"
  ELSE IF op = "deleteDeck" THEN "delete" ELSE "edit"

\* The deck row alone decides in the requestor's favour.
DeckGrants(u, d, action) == owner[d] = u \/ (d \in public /\ action = "read")

\* Faulty variants: a viewer may edit; a collaborator may delete.
RoleGrantsViewer(ro, action) == ro # "none" /\ action # "delete"
RoleGrantsDelete(ro, action) ==
  ro # "none" /\ (action = "edit" => ro = "EDITOR")

\* A collaborator row decides.
RoleGrants(ro, action) ==
  /\ ro # "none"
  /\ action # "delete"
  /\ action = "edit" => ro = "EDITOR"

\* visibleDeckScope, as a predicate on the row it filters
VisibleDeckScope(u, d) == owner[d] = u \/ d \in public \/ role[<<d, u>>] # "none"

\* loadCard: await card.findUnique, then loadDeck(card.deckId)
LoadCard(r) ==
  /\ pc[r] = "card"
  /\ \/ /\ cardDeck[call[r].card] = None
        /\ Reply(r, 404)
     \/ /\ cardDeck[call[r].card] # None
        /\ Await(r, "deck", cardDeck[call[r].card], None)
  /\ UNCHANGED <<tables, clock, failures>>

\* loadDeck up to its second await
LoadDeck(r) ==
  /\ pc[r] = "deck"
  /\ \/ /\ owner[target[r]] = None
        /\ Reply(r, 404)
     \/ /\ owner[target[r]] # None
        /\ Await(r,
                 IF DeckGrants(call[r].user, target[r], ActionOf(call[r].op))
                 THEN "loaded" ELSE "collaborator",
                 target[r], None)
  /\ UNCHANGED <<tables, clock, failures>>

\* loadDeck from its second await: the deck row read before is not read again
LoadCollaborator(r) ==
  /\ pc[r] = "collaborator"
  /\ \/ /\ RoleGrants(role[<<target[r], call[r].user>>], ActionOf(call[r].op))
        /\ Await(r, "loaded", target[r], None)
     \/ /\ ~RoleGrants(role[<<target[r], call[r].user>>], ActionOf(call[r].op))
        /\ Reply(r, 403)
  /\ UNCHANGED <<tables, clock, failures>>

\* The service op awaits its own statement after loadDeck or loadCard returned.
Loaded(r, op) == pc[r] = "loaded" /\ call[r].op = op

Access(r) == LoadCard(r) \/ LoadDeck(r) \/ LoadCollaborator(r)
=============================================================================
