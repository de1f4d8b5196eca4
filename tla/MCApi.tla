-------------------------------- MODULE MCApi --------------------------------
(* ApiStudy, and with it Api, on small instances. *)
EXTENDS ApiStudy, TLC

CONSTANTS u1, u2, d1, d2, c1, c2, r1, r2

\* Every slot carries everyone's requests of these operations ...
Everyone(ops) == [r \in Request |-> User \X ops]

ProductTraffic ==
  Everyone({"createDeck", "updateDeck", "deleteDeck",
            "createCard", "updateCard", "deleteCard", "getProgress",
            "updateUser", "deleteUser"})
StudyTraffic ==
  Everyone({"createDeck", "createCard", "submitReview", "getProgress",
            "getDeck", "getCard", "listCards"})
ListTraffic == Everyone({"createDeck", "createCard", "listCards"})
PublishTraffic == Everyone({"createDeck", "updateDeck"})

\* ... or r1 those of a student who waits for each answer, r2 an owner's.
ClientTraffic ==
  [r \in Request |->
     IF r = r1 THEN {u1} \X {"submitReview", "listDue", "deleteUser"}
     ELSE {u2} \X {"createDeck", "createCard", "updateDeck", "deleteCard",
                  "listDecks", "readUser"}]

Symmetry == Permutations(User) \cup Permutations(Request)
            \cup Permutations(Deck) \cup Permutations(Card)
=============================================================================
