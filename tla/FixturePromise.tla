--------------------------- MODULE FixturePromise ---------------------------
(***************************************************************************)
(* What `docs:seed` promises of the canonical deck and its cards: they are *)
(* completed in one step or left alone, what is there is kept as it is,    *)
(* and what belongs to somebody else is never touched.                     *)
(***************************************************************************)
CONSTANTS Fixture, Owner, None

VARIABLES
  deck,     \* userId of the canonical deck
  cards,    \* of each canonical card: "absent", "canonical", "edited", "foreign"
  deleted   \* cards that were ever deleted: a seed may have seen them before

Complete(u) ==
  /\ deck \in {None, u} /\ deck' = u
  /\ \A k \in Fixture : cards[k] # "foreign"
  /\ \E kept \in SUBSET deleted :
       cards' = [k \in Fixture |-> IF cards[k] = "absent" /\ k \notin kept
                                   THEN "canonical" ELSE cards[k]]
  /\ UNCHANGED deleted

Edit ==
  \E k \in Fixture, to \in {"edited", "absent"} :
    /\ cards[k] \in {"canonical", "edited"}
    /\ cards' = [cards EXCEPT ![k] = to]
    /\ deleted' = deleted \cup (IF to = "absent" THEN {k} ELSE {})
    /\ UNCHANGED deck

DeleteDeck ==
  /\ deck # None /\ deck' = None
  /\ \A k \in Fixture : cards[k] \in {"absent", "foreign"}
  /\ UNCHANGED <<cards, deleted>>

Erase ==
  /\ deck' = None /\ cards' = [k \in Fixture |-> "absent"]
  /\ UNCHANGED deleted

Init == deleted = {}

Next == (\E u \in Owner : Complete(u)) \/ Edit \/ DeleteDeck \/ Erase

Spec == Init /\ [][Next]_<<deck, cards, deleted>>
=============================================================================
