--------------------------- MODULE DocsSeedProofs ---------------------------
(***************************************************************************)
(* The seed of src/lib/developmentData.ts for any number of seeds, resets  *)
(* and cards: the sessions it mints and removes, and that await by await   *)
(* it implements the one step of FixturePromise.                           *)
(***************************************************************************)
EXTENDS DocsSeed, TLAPS

Fields(r) ==
  [pc |-> r.pc, user |-> r.user, verified |-> r.verified, deck |-> r.deck,
   unread |-> r.unread, missing |-> r.missing, minted |-> r.minted,
   failed |-> r.failed, cleanupFailed |-> r.cleanupFailed]

Shape == run = [r \in Seed \cup Reset |-> Fields(run[r])]

OwnTokens(s) == {s} \X {"sign-up", "sign-in"}

\* A run mints for itself only, and what it minted is gone when it is done.
OwnSessions(s) ==
  /\ run[s].minted \subseteq OwnTokens(s)
  /\ run[s].pc \in {"disconnect", "0", "1"} /\ ~run[s].cleanupFailed =>
       run[s].minted \cap sessions = {}

SessionInv == Shape /\ \A s \in Seed : OwnSessions(s)

-----------------------------------------------------------------------------
Preflight == {"cards", "create deck", "create cards", "commit"}
Known == Preflight \cup {"sign-in", "session", "deck"}
Before == {"find", "sign-up", "account", "auto", "find again", "sign-in", "session", "deck"}

\* The user whom the run has found was erased, by a reset.
Stale(s) == run[s].user # None /\ user # run[s].user

\* A user has the name of a run that has signed it up, and no user comes back.
Users ==
  /\ user \in Owner \cup {None}
  /\ \A s \in Seed :
       /\ run[s].user \in Owner \cup {None}
       /\ run[s].pc \in Known => run[s].user # None
       /\ run[s].pc \in {"find", "sign-up"} => user # s /\ \A o \in Seed : run[o].user # s

\* What the preflight has seen and refused to go on with cannot appear again.
Foreign(s) ==
  run[s].pc \in Preflight =>
    /\ deck # Other
    /\ \A k \in Fixture \ run[s].unread : cards[k] # "foreign"

\* A card that was there is there, or was deleted, or a reset has erased it.
Kept(s) ==
  run[s].pc \in Preflight =>
    \A k \in Fixture \ (run[s].unread \cup run[s].missing) :
      cards[k] # "absent" \/ k \in deleted \/ Stale(s)

\* The rows of an open transaction, which nobody else can insert.
Transaction(s) ==
  /\ pending[s] \subseteq {"deck"} \cup Fixture
  /\ run[s].missing \subseteq Fixture /\ run[s].unread \subseteq Fixture
  /\ run[s].pc \in Before => run[s].unread = Fixture /\ run[s].missing = {}
  /\ run[s].pc \in {"create deck", "create cards", "commit"} => run[s].unread = {}
  /\ run[s].pc \notin {"create cards", "commit"} => pending[s] = {}
  /\ run[s].pc = "create cards" =>
       pending[s] = {"deck"} \/ (pending[s] = {} /\ run[s].missing # {})
  /\ run[s].pc = "commit" =>
       /\ run[s].missing \subseteq pending[s] /\ pending[s] # {}
       /\ "deck" \in pending[s] \/ deck # None
  /\ "deck" \in pending[s] => deck = None /\ ~Stale(s)
  /\ \A k \in pending[s] \cap Fixture : cards[k] = "absent"

Disjoint == \A s, o \in Seed : s # o => pending[s] \cap pending[o] = {}

\* After a reset the deck only comes with all its cards.
Rebuilt ==
  (deck # None /\ \E s \in Seed : Stale(s)) =>
    \A k \in Fixture : cards[k] = "absent" => k \in deleted

FixtureInv ==
  /\ Shape /\ Users /\ Disjoint /\ Rebuilt
  /\ deck \in Owner \cup {Other, None}
  /\ cards = [k \in Fixture |-> cards[k]]
  /\ pending = [s \in Seed |-> pending[s]]
  /\ \A s \in Seed : Foreign(s) /\ Kept(s) /\ Transaction(s)

-----------------------------------------------------------------------------
(* The shape of the records and the sessions                               *)

LEMMA RunShape ==
  ASSUME Shape, NEW s \in Seed \cup Reset
  PROVE  run[s] = Fields(run[s]) /\ DOMAIN run = Seed \cup Reset
BY DEF Shape

\* A step of a run changes its own record only.
OwnStep(s) == Shape' /\ \A o \in (Seed \cup Reset) \ {s} : run'[o] = run[o]

Locals(r) ==
  <<r.user, r.verified, r.deck, r.unread, r.missing, r.minted, r.cleanupFailed>>

LEMMA Updated ==
  ASSUME Shape, NEW s \in Seed \cup Reset,
         run' = [run EXCEPT ![s] = run'[s]], run'[s] = Fields(run'[s])
  PROVE  OwnStep(s)
BY RunShape DEF Shape, OwnStep

LEMMA GoEffect ==
  ASSUME Shape, NEW s \in Seed \cup Reset, NEW pc, Go(s, pc)
  PROVE  /\ OwnStep(s) /\ run'[s].pc = pc /\ Locals(run'[s]) = Locals(run[s])
         /\ run'[s].failed = run[s].failed
<1>1. s \in DOMAIN run /\ run[s] = Fields(run[s])
  BY RunShape
<1>2. run' = [run EXCEPT ![s] = run'[s]]
  BY <1>1 DEF Go
<1>3. run'[s] = Fields(run'[s])
  BY <1>1 DEF Go, Fields
<1>4. /\ run'[s].pc = pc /\ Locals(run'[s]) = Locals(run[s])
      /\ run'[s].failed = run[s].failed
  BY <1>1 DEF Go, Fields, Locals
<1> QED
  BY <1>2, <1>3, <1>4, Updated

LEMMA ThrowEffect ==
  ASSUME Shape, NEW s \in Seed \cup Reset, Throw(s)
  PROVE  /\ OwnStep(s) /\ run'[s].pc = CleanupOrEnd(s) /\ Locals(run'[s]) = Locals(run[s])
         /\ run'[s].failed
<1>1. s \in DOMAIN run /\ run[s] = Fields(run[s])
  BY RunShape
<1>2. run' = [run EXCEPT ![s] = run'[s]]
  BY <1>1 DEF Throw
<1>3. run'[s] = Fields(run'[s])
  BY <1>1 DEF Throw, Fields
<1>4. /\ run'[s].pc = CleanupOrEnd(s) /\ Locals(run'[s]) = Locals(run[s])
      /\ run'[s].failed
  BY <1>1 DEF Throw, Fields, Locals
<1> QED
  BY <1>2, <1>3, <1>4, Updated

LEMMA HaveEffect ==
  ASSUME Shape, NEW s \in Seed \cup Reset, NEW u, NEW pc, Have(s, u, pc)
  PROVE  OwnStep(s) /\ run'[s].pc = pc /\ Locals(run'[s]) =
         <<u, run[s].verified, run[s].deck, run[s].unread,
           run[s].missing, run[s].minted, run[s].cleanupFailed>>
<1>1. s \in DOMAIN run /\ run[s] = Fields(run[s])
  BY RunShape
<1>2. run' = [run EXCEPT ![s] = run'[s]]
  BY <1>1 DEF Have
<1>3. run'[s] = Fields(run'[s])
  BY <1>1 DEF Have, Fields
<1>4. run'[s].pc = pc /\ Locals(run'[s]) =
         <<u, run[s].verified, run[s].deck, run[s].unread,
           run[s].missing, run[s].minted, run[s].cleanupFailed>>
  BY <1>1 DEF Have, Fields, Locals
<1> QED
  BY <1>2, <1>3, <1>4, Updated

(* The session of a sign-up, of a sign-in; a verified password.            *)
LEMMA AutoEffect ==
  ASSUME Shape, NEW s \in Seed \cup Reset, run' = [run EXCEPT ![s].minted = {<<s, "sign-up">>}, ![s].pc = "find again"]
  PROVE  OwnStep(s) /\ run'[s].pc = "find again" /\ Locals(run'[s]) =
         <<run[s].user, run[s].verified, run[s].deck, run[s].unread,
           run[s].missing, {<<s, "sign-up">>}, run[s].cleanupFailed>>
<1>1. s \in DOMAIN run /\ run[s] = Fields(run[s])
  BY RunShape
<1>2. run' = [run EXCEPT ![s] = run'[s]]
  BY <1>1
<1>3. run'[s] = Fields(run'[s])
  BY <1>1 DEF Fields
<1>4. run'[s].pc = "find again" /\ Locals(run'[s]) =
         <<run[s].user, run[s].verified, run[s].deck, run[s].unread,
           run[s].missing, {<<s, "sign-up">>}, run[s].cleanupFailed>>
  BY <1>1 DEF Fields, Locals
<1> QED
  BY <1>2, <1>3, <1>4, Updated

LEMMA MintEffect ==
  ASSUME Shape, NEW s \in Seed \cup Reset, run' = [run EXCEPT ![s].minted = @ \cup {<<s, "sign-in">>}, ![s].pc = "deck"]
  PROVE  OwnStep(s) /\ run'[s].pc = "deck" /\ Locals(run'[s]) =
         <<run[s].user, run[s].verified, run[s].deck, run[s].unread,
           run[s].missing, run[s].minted \cup {<<s, "sign-in">>}, run[s].cleanupFailed>>
<1>1. s \in DOMAIN run /\ run[s] = Fields(run[s])
  BY RunShape
<1>2. run' = [run EXCEPT ![s] = run'[s]]
  BY <1>1
<1>3. run'[s] = Fields(run'[s])
  BY <1>1 DEF Fields
<1>4. run'[s].pc = "deck" /\ Locals(run'[s]) =
         <<run[s].user, run[s].verified, run[s].deck, run[s].unread,
           run[s].missing, run[s].minted \cup {<<s, "sign-in">>}, run[s].cleanupFailed>>
  BY <1>1 DEF Fields, Locals
<1> QED
  BY <1>2, <1>3, <1>4, Updated

LEMMA VerifiedEffect ==
  ASSUME Shape, NEW s \in Seed \cup Reset, run' = [run EXCEPT ![s].verified = user, ![s].pc = "session"]
  PROVE  OwnStep(s) /\ run'[s].pc = "session" /\ Locals(run'[s]) =
         <<run[s].user, user, run[s].deck, run[s].unread,
           run[s].missing, run[s].minted, run[s].cleanupFailed>>
<1>1. s \in DOMAIN run /\ run[s] = Fields(run[s])
  BY RunShape
<1>2. run' = [run EXCEPT ![s] = run'[s]]
  BY <1>1
<1>3. run'[s] = Fields(run'[s])
  BY <1>1 DEF Fields
<1>4. run'[s].pc = "session" /\ Locals(run'[s]) =
         <<run[s].user, user, run[s].deck, run[s].unread,
           run[s].missing, run[s].minted, run[s].cleanupFailed>>
  BY <1>1 DEF Fields, Locals
<1> QED
  BY <1>2, <1>3, <1>4, Updated

LEMMA DeckEffect ==
  ASSUME Shape, NEW s \in Seed \cup Reset, run' = [run EXCEPT ![s].deck = deck, ![s].pc = "cards"]
  PROVE  OwnStep(s) /\ run'[s].pc = "cards" /\ Locals(run'[s]) =
         <<run[s].user, run[s].verified, deck, run[s].unread,
           run[s].missing, run[s].minted, run[s].cleanupFailed>>
<1>1. s \in DOMAIN run /\ run[s] = Fields(run[s])
  BY RunShape
<1>2. run' = [run EXCEPT ![s] = run'[s]]
  BY <1>1
<1>3. run'[s] = Fields(run'[s])
  BY <1>1 DEF Fields
<1>4. run'[s].pc = "cards" /\ Locals(run'[s]) =
         <<run[s].user, run[s].verified, deck, run[s].unread,
           run[s].missing, run[s].minted, run[s].cleanupFailed>>
  BY <1>1 DEF Fields, Locals
<1> QED
  BY <1>2, <1>3, <1>4, Updated

LEMMA ReadEffect ==
  ASSUME Shape, NEW s \in Seed \cup Reset, NEW k \in run[s].unread,
         run' = [run EXCEPT ![s].unread = @ \ {k},
                   ![s].missing = IF cards[k] = "absent" THEN @ \cup {k} ELSE @]
  PROVE  OwnStep(s) /\ run'[s].pc = run[s].pc /\ Locals(run'[s]) =
         <<run[s].user, run[s].verified, run[s].deck, run[s].unread \ {k},
           (IF cards[k] = "absent" THEN run[s].missing \cup {k} ELSE run[s].missing), run[s].minted, run[s].cleanupFailed>>
<1>1. s \in DOMAIN run /\ run[s] = Fields(run[s])
  BY RunShape
<1>2. run' = [run EXCEPT ![s] = run'[s]]
  BY <1>1
<1>3. run'[s] = Fields(run'[s])
  BY <1>1 DEF Fields
<1>4. run'[s].pc = run[s].pc /\ Locals(run'[s]) =
         <<run[s].user, run[s].verified, run[s].deck, run[s].unread \ {k},
           (IF cards[k] = "absent" THEN run[s].missing \cup {k} ELSE run[s].missing), run[s].minted, run[s].cleanupFailed>>
  BY <1>1 DEF Fields, Locals
<1> QED
  BY <1>2, <1>3, <1>4, Updated

LEMMA CleanupFails ==
  ASSUME Shape, NEW s \in Seed \cup Reset, run' = [run EXCEPT ![s].failed = TRUE, ![s].cleanupFailed = TRUE, ![s].pc = "disconnect"]
  PROVE  /\ OwnStep(s) /\ run'[s].pc = "disconnect" /\ run'[s].failed
         /\ Locals(run'[s]) =
              <<run[s].user, run[s].verified, run[s].deck, run[s].unread,
                run[s].missing, run[s].minted, TRUE>>
<1>1. s \in DOMAIN run /\ run[s] = Fields(run[s])
  BY RunShape
<1>2. run' = [run EXCEPT ![s] = run'[s]]
  BY <1>1
<1>3. run'[s] = Fields(run'[s])
  BY <1>1 DEF Fields
<1>4. /\ run'[s].pc = "disconnect" /\ run'[s].failed
      /\ Locals(run'[s]) =
           <<run[s].user, run[s].verified, run[s].deck, run[s].unread,
             run[s].missing, run[s].minted, TRUE>>
  BY <1>1 DEF Fields, Locals
<1> QED
  BY <1>2, <1>3, <1>4, Updated

-----------------------------------------------------------------------------
(* The sessions of a seed                                                  *)

SessionStep(s) ==
  /\ OwnStep(s) /\ sessions' \subseteq sessions \cup OwnTokens(s)
  /\ OwnSessions(s)'

LEMMA GoSessions ==
  ASSUME SessionInv, NEW s \in Seed, NEW pc, Go(s, pc), sessions' = sessions,
         pc \notin {"disconnect", "0", "1"}
  PROVE  SessionStep(s)
BY GoEffect DEF SessionInv, SessionStep, OwnSessions, Locals

LEMMA HaveSessions ==
  ASSUME SessionInv, NEW s \in Seed, NEW u, NEW pc, Have(s, u, pc), sessions' = sessions,
         pc \notin {"disconnect", "0", "1"}
  PROVE  SessionStep(s)
BY HaveEffect DEF SessionInv, SessionStep, OwnSessions, Locals

\* A seed that throws goes to its cleanup if it has minted anything.
LEMMA ThrowSessions ==
  ASSUME SessionInv, NEW s \in Seed, Throw(s), sessions' \subseteq sessions \cup OwnTokens(s)
  PROVE  SessionStep(s)
BY ThrowEffect DEF SessionInv, SessionStep, OwnSessions, Locals, CleanupOrEnd

LEMMA AutoSessions ==
  ASSUME SessionInv, NEW s \in Seed, AutoSignIn(s)
  PROVE  SessionStep(s)
<1>1. CASE Throw(s)
  <2>1. sessions' \subseteq sessions \cup OwnTokens(s)
    <3>1. <<s, "sign-up">> \in OwnTokens(s)
      BY DEF OwnTokens
    <3>2. sessions' = sessions \/ sessions' = sessions \cup {<<s, "sign-up">>}
      BY DEF AutoSignIn
    <3> QED
      BY <3>1, <3>2
  <2> QED
    BY <1>1, <2>1, ThrowSessions
<1>2. CASE ~Throw(s)
  <2>1. /\ run' = [run EXCEPT ![s].minted = {<<s, "sign-up">>}, ![s].pc = "find again"]
        /\ sessions' = sessions \cup {<<s, "sign-up">>}
    BY <1>2 DEF AutoSignIn
  <2> QED
    <3>1. <<s, "sign-up">> \in OwnTokens(s)
      BY DEF OwnTokens
    <3>2. OwnStep(s) /\ run'[s].pc = "find again" /\ run'[s].minted = {<<s, "sign-up">>}
      <4>1. Shape /\ s \in Seed \cup Reset
        BY DEF SessionInv
      <4> QED
        BY <2>1, <4>1, AutoEffect DEF Locals
    <3>3. run'[s].minted \subseteq OwnTokens(s)
      BY <3>1, <3>2 DEF SessionInv, OwnSessions
    <3> QED
      BY <2>1, <3>1, <3>2, <3>3 DEF SessionStep, OwnSessions
<1> QED
  BY <1>1, <1>2

LEMMA MintSessions ==
  ASSUME SessionInv, NEW s \in Seed, MintSession(s)
  PROVE  SessionStep(s)
<1>1. CASE Throw(s)
  BY <1>1, ThrowSessions DEF MintSession, OwnTokens
<1>2. CASE ~Throw(s)
  <2>1. /\ run' = [run EXCEPT ![s].minted = @ \cup {<<s, "sign-in">>}, ![s].pc = "deck"]
        /\ sessions' = sessions \cup {<<s, "sign-in">>}
    BY <1>2 DEF MintSession
  <2> QED
    <3>1. <<s, "sign-in">> \in OwnTokens(s)
      BY DEF OwnTokens
    <3>2. OwnStep(s) /\ run'[s].pc = "deck" /\ run'[s].minted = run[s].minted \cup {<<s, "sign-in">>}
      <4>1. Shape /\ s \in Seed \cup Reset
        BY DEF SessionInv
      <4> QED
        BY <2>1, <4>1, MintEffect DEF Locals
    <3>3. run'[s].minted \subseteq OwnTokens(s)
      BY <3>1, <3>2 DEF SessionInv, OwnSessions
    <3> QED
      BY <2>1, <3>1, <3>2, <3>3 DEF SessionStep, OwnSessions
<1> QED
  BY <1>1, <1>2

LEMMA CleanupSessions ==
  ASSUME SessionInv, NEW s \in Seed, Cleanup(s)
  PROVE  SessionStep(s)
<1>1. CASE Go(s, "disconnect") /\ sessions' = sessions \ run[s].minted
  BY <1>1, GoEffect DEF SessionInv, SessionStep, OwnSessions, Locals
<1>2. CASE sessions' = sessions /\ run' = [run EXCEPT ![s].failed = TRUE, ![s].cleanupFailed = TRUE, ![s].pc = "disconnect"]
  BY <1>2, CleanupFails DEF SessionInv, SessionStep, OwnSessions, Locals
<1> QED
  BY <1>1, <1>2 DEF Cleanup

LEMMA DisconnectSessions ==
  ASSUME SessionInv, NEW s \in Seed, Disconnect(s)
  PROVE  SessionStep(s)
<1>1. sessions' = sessions /\ run[s].pc = "disconnect"
  BY DEF Disconnect, At, logins
<1>2. ASSUME NEW pc, Go(s, pc) PROVE SessionStep(s)
  BY <1>1, <1>2, GoEffect DEF SessionInv, SessionStep, OwnSessions, Locals
<1> QED
  BY <1>2 DEF Disconnect

LEMMA SeedSessions ==
  ASSUME SessionInv, NEW s \in Seed, SeedStep(s)
  PROVE  SessionStep(s)
<1>1. CASE FindUser(s)
  BY <1>1, HaveSessions DEF FindUser, logins
<1>2. CASE SignUp(s) \/ LinkAccount(s)
  BY <1>2, GoSessions, ThrowSessions DEF SignUp, LinkAccount
<1>3. CASE FindAgain(s)
  BY <1>3, HaveSessions, ThrowSessions DEF FindAgain, logins
<1>4. CASE VerifyPassword(s)
  <2>1. CASE Throw(s)
    BY <1>4, <2>1, ThrowSessions DEF VerifyPassword, logins
  <2>2. CASE run' = [run EXCEPT ![s].verified = user, ![s].pc = "session"]
    BY <1>4, <2>2, VerifiedEffect DEF VerifyPassword, logins, SessionInv, SessionStep, OwnSessions, Locals
  <2> QED
    BY <1>4, <2>1, <2>2 DEF VerifyPassword
<1>5. CASE ReadDeck(s)
  <2>1. CASE Throw(s)
    BY <1>5, <2>1, ThrowSessions DEF ReadDeck, logins
  <2>2. CASE run' = [run EXCEPT ![s].deck = deck, ![s].pc = "cards"]
    BY <1>5, <2>2, DeckEffect DEF ReadDeck, logins, SessionInv, SessionStep, OwnSessions, Locals
  <2> QED
    BY <1>5, <2>1, <2>2 DEF ReadDeck
<1>6. CASE ReadCard(s)
  <2>1. CASE Throw(s)
    BY <1>6, <2>1, ThrowSessions DEF ReadCard, logins
  <2>2. ASSUME NEW k \in run[s].unread,
               run' = [run EXCEPT ![s].unread = @ \ {k},
                         ![s].missing = IF cards[k] = "absent" THEN @ \cup {k} ELSE @]
        PROVE  SessionStep(s)
    BY <1>6, <2>2, ReadEffect DEF ReadCard, At, logins, SessionInv, SessionStep, OwnSessions, Locals
  <2> QED
    BY <1>6, <2>1, <2>2 DEF ReadCard
<1>7. CASE Reconcile(s)
  BY <1>7, GoSessions DEF Reconcile, logins
<1>8. CASE CreateDeck(s) \/ CreateCards(s) \/ Commit(s)
  BY <1>8, GoSessions, ThrowSessions DEF CreateDeck, CreateCards, Commit, logins
<1>9. CASE Fail(s)
  BY <1>9, ThrowSessions DEF Fail, logins
<1>10. CASE Kill(s)
  BY <1>10, GoSessions DEF Kill, logins
<1> QED
  BY <1>1, <1>2, <1>3, <1>4, <1>5, <1>6, <1>7, <1>8, <1>9, <1>10,
     AutoSessions, MintSessions, CleanupSessions, DisconnectSessions DEF SeedStep

\* A step of one seed leaves the tokens of the others alone.
LEMMA OthersKeepSessions ==
  ASSUME SessionInv, NEW s \in Seed, SessionStep(s)
  PROVE  SessionInv'
<1>1. ASSUME NEW o \in Seed, o # s PROVE OwnSessions(o)'
  BY <1>1 DEF SessionInv, SessionStep, OwnStep, OwnSessions, OwnTokens
<1> QED
  BY <1>1 DEF SessionInv, SessionStep, OwnStep

LEMMA ResetKeepsSessions ==
  ASSUME SessionInv, NEW r \in Reset, ResetStep(r)
  PROVE  SessionInv'
<1>1. OwnStep(r)
  <2>1. CASE Disconnect(r)
    BY <2>1, GoEffect DEF Disconnect, SessionInv
  <2>2. CASE Truncate(r) /\ Go(r, "disconnect")
    BY <2>2, GoEffect DEF SessionInv
  <2>3. CASE run' = [run EXCEPT ![r].failed = TRUE, ![r].pc = "disconnect"]
    <3>1. r \in DOMAIN run /\ run[r] = Fields(run[r])
      BY RunShape DEF SessionInv
    <3>2. run' = [run EXCEPT ![r] = run'[r]] /\ run'[r] = Fields(run'[r])
      BY <2>3, <3>1 DEF Fields
    <3> QED
      BY <3>2, Updated DEF SessionInv
  <2> QED
    BY <2>1, <2>2, <2>3 DEF ResetStep, Truncate
<1>2. sessions' \subseteq sessions
  BY DEF ResetStep, Truncate, Disconnect, logins
<1>3. \A s \in Seed : run'[s] = run[s]
  BY <1>1, DocsAssumption DEF OwnStep
<1> QED
  BY <1>1, <1>2, <1>3 DEF SessionInv, OwnStep, OwnSessions

LEMMA InitSessions == Init => SessionInv
<1> SUFFICES ASSUME Init PROVE SessionInv
  OBVIOUS
<1>1. \A r \in Seed \cup Reset : run[r] = Fields(run[r])
  BY DEF Init, NewRun, Fields
<1>2. run = [r \in Seed \cup Reset |-> run[r]]
  BY DEF Init
<1>3. \A s \in Seed : run[s].minted = {} /\ run[s].pc = "find"
  BY DEF Init, NewRun
<1> QED
  BY <1>1, <1>2, <1>3 DEF SessionInv, Shape, OwnSessions

LEMMA NextSessions == SessionInv /\ [Next]_vars => SessionInv'
<1> SUFFICES ASSUME SessionInv, [Next]_vars PROVE SessionInv'
  OBVIOUS
<1>1. CASE Develop \/ UNCHANGED vars
  BY <1>1 DEF Develop, vars, logins, SessionInv, Shape, OwnSessions
<1> QED
  BY <1>1, SeedSessions, OthersKeepSessions, ResetKeepsSessions DEF Next

\* A run mints for itself only, and a run that is done has left none of what it
\* minted unless its cleanup failed (developmentData.ts, seedDocsData's finally).
THEOREM SessionInvariant == Spec => []SessionInv
BY InitSessions, NextSessions, PTL DEF Spec

\* Whatever fails in a seed, none of its sessions outlives it but by a failure
\* of the cleanup itself (developmentData.ts, seedDocsData's finally).
THEOREM AlwaysTokensRemoved == Spec => []TokensRemoved
<1>1. SessionInv => TokensRemoved
  BY DEF SessionInv, OwnSessions, TokensRemoved
<1> QED
  BY <1>1, SessionInvariant, PTL

\* A seed signs nobody out but the sessions it minted itself.
THEOREM AlwaysOthersSessions == Spec => OthersSessions
<1>1. SessionInv /\ [Next]_vars =>
        [\A t \in sessions \ sessions' :
           \/ user' = None
           \/ t[1] \in Seed /\ run[t[1]].pc = "cleanup" /\ t \in run[t[1]].minted]_vars
  <2> SUFFICES ASSUME SessionInv, Next, NEW t \in sessions \ sessions', user' # None
               PROVE  t[1] \in Seed /\ run[t[1]].pc = "cleanup" /\ t \in run[t[1]].minted
    OBVIOUS
  <2>1. PICK s \in Seed : Cleanup(s) /\ t \in run[s].minted
    BY DEF Next, SeedStep, FindUser, SignUp, LinkAccount, AutoSignIn, FindAgain, VerifyPassword,
           MintSession, ReadDeck, ReadCard, Reconcile, CreateDeck, CreateCards, Commit, Cleanup,
           Disconnect, Fail, Kill, ResetStep, Truncate, Develop, logins
  <2>2. t[1] = s
    BY <2>1 DEF SessionInv, OwnSessions, OwnTokens
  <2> QED
    BY <2>1, <2>2 DEF Cleanup, At
<1> QED
  BY <1>1, SessionInvariant, PTL DEF Spec, OthersSessions

-----------------------------------------------------------------------------
(* The invariant behind the refinement                                     *)

LEMMA OwnerOther == Other \notin Owner /\ None \notin Owner /\ Other # None
BY DocsAssumption DEF Owner

LEMMA InitFixtures == Init => FixtureInv
<1> SUFFICES ASSUME Init PROVE FixtureInv
  OBVIOUS
<1>1. \A r \in Seed \cup Reset : run[r] = Fields(run[r])
  BY DEF Init, NewRun, Fields
<1>2. run = [r \in Seed \cup Reset |-> run[r]]
  BY DEF Init
<1>3. \A s \in Seed : /\ run[s].pc = "find" /\ run[s].user = None
                      /\ run[s].unread = Fixture /\ run[s].missing = {}
  BY DEF Init, NewRun
<1>4. Shape
  BY <1>1, <1>2 DEF Shape
<1>5. user \in {First, None} /\ deck \in {First, Other, None}
  BY DEF Init
<1>6. Users
  BY <1>3, <1>5, DocsAssumption DEF Users, Owner, Known, Preflight
<1>7. pending = [s \in Seed |-> {}] /\ cards = [k \in Fixture |-> cards[k]]
  BY DEF Init
<1>8. \A s \in Seed : Foreign(s) /\ Kept(s) /\ Transaction(s) /\ ~Stale(s)
  BY <1>3, <1>7 DEF Foreign, Kept, Transaction, Stale, Preflight, Before
<1> QED
  BY <1>4, <1>5, <1>6, <1>7, <1>8 DEF FixtureInv, Disjoint, Rebuilt, Owner

\* A seed that goes on outside its preflight and transaction, or gives up and
\* rolls back.
LEMMA Outside ==
  ASSUME FixtureInv, NEW s \in Seed, OwnStep(s), UNCHANGED <<user, deck, cards, deleted>>,
         pending' = [pending EXCEPT ![s] = {}],
         run'[s].pc \notin Preflight,
         run'[s].user \in {run[s].user, user},
         run'[s].pc \in Known => run'[s].user # None,
         run'[s].pc \in {"find", "sign-up"} => run[s].pc \in {"find", "sign-up"},
         run'[s].pc \in Before => run[s].pc \in Before,
         run'[s].unread = run[s].unread, run'[s].missing = run[s].missing
  PROVE  FixtureInv'
<1>1. \A o \in Seed \ {s} : run'[o] = run[o] /\ pending'[o] = pending[o]
  BY DEF OwnStep, FixtureInv
<1>2. pending'[s] = {} /\ pending' = [o \in Seed |-> pending'[o]]
  BY DEF FixtureInv
<1>3. Users'
  <2>1. run'[s].user \in Owner \cup {None}
    BY DEF FixtureInv, Users
  <2>2. ASSUME NEW o \in Seed, run'[o].pc \in {"find", "sign-up"}
        PROVE  user # o /\ \A q \in Seed : run'[q].user # o
    <3>1. user # o /\ \A q \in Seed : run[q].user # o
      BY <1>1, <2>2 DEF FixtureInv, Users
    <3> QED
      BY <1>1, <3>1
  <2> QED
    BY <1>1, <2>1, <2>2 DEF FixtureInv, Users
<1>4. Disjoint'
  BY <1>1, <1>2 DEF FixtureInv, Disjoint
<1>5. ASSUME NEW o \in Seed, o # s PROVE (Foreign(o) /\ Kept(o) /\ Transaction(o))'
  <2>1. run'[o] = run[o] /\ pending'[o] = pending[o] /\ Foreign(o) /\ Kept(o) /\ Transaction(o)
    BY <1>1, <1>5 DEF FixtureInv
  <2>2. Foreign(o)' /\ Kept(o)'
    BY <2>1 DEF Foreign, Kept, Stale
  <2>3. Transaction(o)'
    BY <2>1 DEF Transaction, Stale
  <2> QED
    BY <2>2, <2>3
<1>6. (Foreign(s) /\ Kept(s))'
  BY DEF Foreign, Kept
<1>7. Transaction(s)'
  BY <1>2 DEF FixtureInv, Transaction, Preflight
<1>8. Rebuilt'
  BY <1>1 DEF FixtureInv, Rebuilt, Stale
<1> QED
  BY <1>2, <1>3, <1>4, <1>5, <1>6, <1>7, <1>8 DEF FixtureInv, OwnStep

LEMMA ThrowOutside ==
  ASSUME FixtureInv, NEW s \in Seed, Throw(s), UNCHANGED <<user, deck, cards, deleted>>
  PROVE  FixtureInv'
<1>1. /\ OwnStep(s) /\ run'[s].pc = CleanupOrEnd(s)
      /\ run'[s].user = run[s].user /\ run'[s].unread = run[s].unread
      /\ run'[s].missing = run[s].missing
  BY ThrowEffect DEF FixtureInv, Locals
<1>2. run'[s].pc \notin Preflight \cup Known \cup Before
  BY <1>1 DEF CleanupOrEnd, Preflight, Known, Before
<1>3. pending' = [pending EXCEPT ![s] = {}]
  BY DEF Throw
<1> QED
  BY <1>1, <1>2, <1>3, Outside DEF Before

\* Go with nothing but the next call changed, outside the transaction.
LEMMA GoOutside ==
  ASSUME FixtureInv, NEW s \in Seed, NEW pc, Go(s, pc), UNCHANGED <<user, deck, cards, deleted>>,
         pending' = [pending EXCEPT ![s] = {}], pc \notin Preflight,
         pc \in Known => run[s].pc \in Known,
         pc \in {"find", "sign-up"} => run[s].pc \in {"find", "sign-up"},
         pc \in Before => run[s].pc \in Before
  PROVE  FixtureInv'
<1>1. /\ OwnStep(s) /\ run'[s].pc = pc
      /\ run'[s].user = run[s].user /\ run'[s].unread = run[s].unread
      /\ run'[s].missing = run[s].missing
  BY GoEffect DEF FixtureInv, Locals
<1>2. run[s].pc \in Known => run[s].user # None
  BY DEF FixtureInv, Users
<1> QED
  BY <1>1, <1>2, Outside

LEMMA Unopened ==
  ASSUME FixtureInv, NEW s \in Seed, run[s].pc \notin {"create cards", "commit"}
  PROVE  pending = [pending EXCEPT ![s] = {}]
<1>1. pending[s] = {}
  BY DEF FixtureInv, Transaction
<1> QED
  BY <1>1 DEF FixtureInv

\* A seed that goes on within its preflight and transaction.
LEMMA Within ==
  ASSUME FixtureInv, NEW s \in Seed, NEW rows, OwnStep(s),
         UNCHANGED <<user, deck, cards, deleted>>,
         pending' = [pending EXCEPT ![s] = rows],
         \A o \in Seed \ {s} : pending[o] \cap rows = {},
         run'[s].pc \in Preflight, run'[s].user = run[s].user, run[s].user # None,
         (Foreign(s) /\ Kept(s) /\ Transaction(s))'
  PROVE  FixtureInv'
<1>1. \A o \in Seed \ {s} : run'[o] = run[o] /\ pending'[o] = pending[o]
  BY DEF OwnStep, FixtureInv
<1>2. pending'[s] = rows /\ pending' = [o \in Seed |-> pending'[o]]
  BY DEF FixtureInv
<1>3. Users'
  <2>1. ASSUME NEW o \in Seed, run'[o].pc \in {"find", "sign-up"}
        PROVE  user # o /\ \A q \in Seed : run'[q].user # o
    <3>1. user # o /\ \A q \in Seed : run[q].user # o
      BY <1>1, <2>1 DEF FixtureInv, Users, Preflight
    <3> QED
      BY <1>1, <3>1
  <2> QED
    BY <1>1, <2>1 DEF FixtureInv, Users
<1>4. Disjoint'
  BY <1>1, <1>2 DEF FixtureInv, Disjoint
<1>5. ASSUME NEW o \in Seed, o # s PROVE (Foreign(o) /\ Kept(o) /\ Transaction(o))'
  <2>1. run'[o] = run[o] /\ pending'[o] = pending[o] /\ Foreign(o) /\ Kept(o) /\ Transaction(o)
    BY <1>1, <1>5 DEF FixtureInv
  <2>2. Foreign(o)' /\ Kept(o)'
    BY <2>1 DEF Foreign, Kept, Stale
  <2>3. Transaction(o)'
    BY <2>1 DEF Transaction, Stale
  <2> QED
    BY <2>2, <2>3
<1>6. Rebuilt'
  BY <1>1 DEF FixtureInv, Rebuilt, Stale
<1> QED
  BY <1>2, <1>3, <1>4, <1>5, <1>6 DEF FixtureInv, OwnStep

LEMMA SignUpFixtures ==
  ASSUME FixtureInv, NEW s \in Seed, SignUp(s)
  PROVE  FixtureInv'
<1>1. CASE user # None
  BY <1>1, ThrowOutside DEF SignUp, fixtures
<1>2. CASE user = None
  <2>0. user' = s /\ Go(s, "account") /\ UNCHANGED pending
    BY <1>2 DEF SignUp
  <2>1. /\ OwnStep(s) /\ run'[s].pc = "account" /\ run[s].pc = "sign-up"
        /\ run'[s].user = run[s].user /\ run'[s].unread = run[s].unread
        /\ run'[s].missing = run[s].missing /\ UNCHANGED <<deck, cards, deleted>>
    BY <2>0, GoEffect DEF FixtureInv, Locals, SignUp, At, fixtures
  <2>2. \A o \in Seed \ {s} : run'[o] = run[o]
    BY <2>1 DEF OwnStep
  <2>3. \A o \in Seed : run[o].user # s
    BY <2>1 DEF FixtureInv, Users
  <2>4. Users'
    <3>1. ASSUME NEW o \in Seed, run'[o].pc \in {"find", "sign-up"}
          PROVE  user' # o /\ \A q \in Seed : run'[q].user # o
      <4>1. o # s /\ \A q \in Seed : run[q].user # o
        BY <2>1, <2>2, <3>1 DEF FixtureInv, Users
      <4> QED
        BY <1>2, <2>0, <2>1, <2>2, <4>1
    <3> QED
      BY <1>2, <2>0, <2>1, <2>2, <3>1 DEF FixtureInv, Users, Owner, Known, Preflight
  <2>5. \A o \in Seed : "deck" \notin pending[o]
    BY <1>2 DEF FixtureInv, Transaction, Users, Stale, Known, Preflight
  <2>6. \A o \in Seed : Stale(o)' <=> Stale(o)
    BY <1>2, <2>0, <2>1, <2>2, <2>3 DEF Stale
  <2>7. ASSUME NEW o \in Seed PROVE (Foreign(o) /\ Kept(o) /\ Transaction(o))'
    <3>1. Foreign(o) /\ Kept(o) /\ Transaction(o)
      BY DEF FixtureInv
    <3>2. Foreign(o)' /\ Kept(o)'
      BY <2>1, <2>2, <2>6, <3>1 DEF Foreign, Kept, Preflight
    <3>3. Transaction(o)'
      <4>1. CASE o = s
        BY <1>2, <2>0, <2>1, <2>5, <3>1, <4>1 DEF Transaction, Before
      <4>2. CASE o # s
        BY <1>2, <2>0, <2>1, <2>2, <2>5, <3>1, <4>2 DEF Transaction
      <4> QED
        BY <4>1, <4>2
    <3> QED
      BY <3>2, <3>3
  <2>8. Rebuilt' /\ Disjoint'
    BY <1>2, <2>0, <2>1, <2>6 DEF FixtureInv, Rebuilt, Disjoint
  <2> QED
    BY <1>2, <2>0, <2>1, <2>4, <2>7, <2>8 DEF FixtureInv, OwnStep
<1> QED
  BY <1>1, <1>2

LEMMA ReadDeckFixtures ==
  ASSUME FixtureInv, NEW s \in Seed, ReadDeck(s)
  PROVE  FixtureInv'
<1>1. CASE Throw(s)
  BY <1>1, ThrowOutside DEF ReadDeck, fixtures, logins
<1>2. CASE ~Throw(s)
  <2>1. /\ run' = [run EXCEPT ![s].deck = deck, ![s].pc = "cards"]
        /\ deck \in {None, run[s].user} /\ UNCHANGED pending
        /\ run[s].pc = "deck" /\ UNCHANGED <<user, deck, cards, deleted>>
    BY <1>2 DEF ReadDeck, fixtures, logins, At
  <2>2. /\ OwnStep(s) /\ run'[s].pc = "cards" /\ run'[s].user = run[s].user
        /\ run'[s].unread = run[s].unread /\ run'[s].missing = run[s].missing
    BY <2>1, DeckEffect DEF FixtureInv, Locals
  <2>3. /\ run[s].unread = Fixture /\ run[s].missing = {} /\ pending[s] = {}
        /\ run[s].user \in Owner
    BY <2>1 DEF FixtureInv, Transaction, Users, Before, Known
  <2>4. (Foreign(s) /\ Kept(s))'
    BY <2>1, <2>2, <2>3, OwnerOther DEF Foreign, Kept
  <2>5. Transaction(s)'
    BY <2>1, <2>2, <2>3 DEF Transaction, Before
  <2>6. pending' = [pending EXCEPT ![s] = {}]
    BY <2>1, <2>3 DEF FixtureInv
  <2> QED
    BY <2>1, <2>2, <2>3, <2>4, <2>5, <2>6, OwnerOther, Within DEF Preflight
<1> QED
  BY <1>1, <1>2

LEMMA ReadCardFixtures ==
  ASSUME FixtureInv, NEW s \in Seed, ReadCard(s)
  PROVE  FixtureInv'
<1>1. CASE Throw(s)
  BY <1>1, ThrowOutside DEF ReadCard, fixtures, logins
<1>2. CASE ~Throw(s)
  <2>1. PICK k \in run[s].unread :
          /\ cards[k] # "foreign" /\ UNCHANGED pending
          /\ run' = [run EXCEPT ![s].unread = @ \ {k},
                       ![s].missing = IF cards[k] = "absent" THEN @ \cup {k} ELSE @]
    BY <1>2 DEF ReadCard
  <2>2. run[s].pc = "cards" /\ UNCHANGED <<user, deck, cards, deleted>>
    BY DEF ReadCard, At, fixtures, logins
  <2>3. /\ OwnStep(s) /\ run'[s].pc = "cards" /\ run'[s].user = run[s].user
        /\ run'[s].unread = run[s].unread \ {k}
        /\ run'[s].missing = IF cards[k] = "absent" THEN run[s].missing \cup {k} ELSE run[s].missing
    BY <2>1, <2>2, ReadEffect DEF FixtureInv, Locals
  <2>4. /\ pending[s] = {} /\ run[s].user # None
        /\ run[s].missing \subseteq Fixture /\ run[s].unread \subseteq Fixture
    BY <2>2 DEF FixtureInv, Transaction, Users, Known, Preflight
  <2>5. (Foreign(s) /\ Kept(s))'
    <3>1. Foreign(s) /\ Kept(s) /\ run[s].pc \in Preflight
      BY <2>2 DEF FixtureInv, Preflight
    <3>2. Foreign(s)'
      BY <2>1, <2>2, <2>3, <3>1 DEF Foreign
    <3>3. Kept(s)'
      <4> SUFFICES ASSUME NEW j \in Fixture, j \notin run'[s].unread, j \notin run'[s].missing
                   PROVE  cards[j] # "absent" \/ j \in deleted \/ Stale(s)'
        BY <2>2 DEF Kept
      <4>1. Stale(s)' <=> Stale(s)
        BY <2>2, <2>3 DEF Stale
      <4>2. CASE j = k
        BY <2>3, <4>2
      <4>3. CASE j # k
        BY <2>3, <3>1, <4>1, <4>3 DEF Kept
      <4> QED
        BY <4>2, <4>3
    <3> QED
      BY <3>2, <3>3
  <2>6. Transaction(s)'
    <3>1. run'[s].missing \subseteq Fixture /\ run'[s].unread \subseteq Fixture
      BY <2>3, <2>4
    <3> QED
      BY <2>1, <2>3, <2>4, <3>1 DEF Transaction, Before
  <2>7. pending' = [pending EXCEPT ![s] = {}]
    BY <2>1, <2>4 DEF FixtureInv
  <2> QED
    BY <2>2, <2>3, <2>4, <2>5, <2>6, <2>7, Within DEF Preflight
<1> QED
  BY <1>1, <1>2

LEMMA ReconcileFixtures ==
  ASSUME FixtureInv, NEW s \in Seed, Reconcile(s)
  PROVE  FixtureInv'
<1>1. /\ run[s].pc = "cards" /\ run[s].unread = {} /\ UNCHANGED pending
      /\ UNCHANGED <<user, deck, cards, deleted>>
  BY DEF Reconcile, At, logins, fixtures
<1>2. PICK pc : /\ Go(s, pc) /\ pc \in {"create deck", "create cards", "cleanup"}
                /\ pc = "create cards" => run[s].missing # {}
  <2>1. CASE run[s].deck = None
    <3>1. Go(s, "create deck")
      BY <2>1 DEF Reconcile, Go
    <3>2. "create deck" # "create cards"
      OBVIOUS
    <3> QED
      BY <3>1, <3>2, Zenon
  <2>2. CASE run[s].deck # None /\ run[s].missing # {}
    <3>1. Go(s, "create cards")
      BY <2>2 DEF Reconcile, Go
    <3> QED
      BY <3>1, <2>2
  <2>3. CASE run[s].deck # None /\ run[s].missing = {}
    <3>1. Go(s, "cleanup")
      BY <2>3 DEF Reconcile, Go
    <3>2. "cleanup" # "create cards"
      OBVIOUS
    <3> QED
      BY <3>1, <3>2, Zenon
  <2> QED
    BY <2>1, <2>2, <2>3
<1>3. pending[s] = {} /\ pending' = [pending EXCEPT ![s] = {}]
  BY <1>1, Unopened DEF FixtureInv, Transaction
<1>4. CASE pc = "cleanup"
  BY <1>1, <1>2, <1>3, <1>4, GoOutside DEF Preflight, Known, Before
<1>5. CASE pc # "cleanup"
  <2>1. /\ OwnStep(s) /\ run'[s].pc = pc /\ run'[s].user = run[s].user
        /\ run'[s].unread = run[s].unread /\ run'[s].missing = run[s].missing
    BY <1>2, GoEffect DEF FixtureInv, Locals
  <2>2. run[s].user # None /\ Foreign(s) /\ Kept(s) /\ Transaction(s)
    BY <1>1 DEF FixtureInv, Users, Known, Preflight
  <2>3. (Foreign(s) /\ Kept(s))'
    BY <1>1, <2>1, <2>2 DEF Foreign, Kept, Stale, Preflight
  <2>4. Transaction(s)'
    BY <1>1, <1>2, <1>3, <1>5, <2>1, <2>2 DEF Transaction, Before
  <2> QED
    BY <1>1, <1>2, <1>3, <1>5, <2>1, <2>2, <2>3, <2>4, Within DEF Preflight
<1> QED
  BY <1>4, <1>5

LEMMA CreateDeckFixtures ==
  ASSUME FixtureInv, NEW s \in Seed, CreateDeck(s)
  PROVE  FixtureInv'
<1>1. /\ run[s].pc = "create deck" /\ Free(s, {"deck"})
      /\ UNCHANGED <<user, deck, cards, deleted>>
  BY DEF CreateDeck, At, logins, fixtures
<1>2. CASE ~(deck = None /\ user = run[s].user)
  BY <1>1, <1>2, ThrowOutside DEF CreateDeck
<1>3. CASE deck = None /\ user = run[s].user
  <2>1. pending' = [pending EXCEPT ![s] = {"deck"}] /\ Go(s, "create cards")
    BY <1>3 DEF CreateDeck
  <2>2. /\ OwnStep(s) /\ run'[s].pc = "create cards" /\ run'[s].user = run[s].user
        /\ run'[s].unread = run[s].unread /\ run'[s].missing = run[s].missing
    BY <2>1, GoEffect DEF FixtureInv, Locals
  <2>3. run[s].user # None /\ Foreign(s) /\ Kept(s) /\ Transaction(s)
    BY <1>1 DEF FixtureInv, Users, Known, Preflight
  <2>4. (Foreign(s) /\ Kept(s))'
    BY <1>1, <2>2, <2>3 DEF Foreign, Kept, Stale, Preflight
  <2>5. pending'[s] = {"deck"}
    BY <2>1 DEF FixtureInv
  <2>6. Transaction(s)'
    BY <1>1, <1>3, <2>2, <2>3, <2>5, DocsAssumption DEF Transaction, Before, Stale
  <2>7. \A o \in Seed \ {s} : pending[o] \cap {"deck"} = {}
    BY <1>1 DEF Free
  <2> QED
    BY <1>1, <2>1, <2>2, <2>3, <2>4, <2>6, <2>7, Within DEF Preflight
<1> QED
  BY <1>2, <1>3

LEMMA CreateCardsFixtures ==
  ASSUME FixtureInv, NEW s \in Seed, CreateCards(s)
  PROVE  FixtureInv'
<1>1. /\ run[s].pc = "create cards" /\ Free(s, run[s].missing)
      /\ UNCHANGED <<user, deck, cards, deleted>>
  BY DEF CreateCards, At, logins, fixtures
<1>2. CASE ~(/\ deck # None \/ "deck" \in pending[s]
             /\ \A k \in run[s].missing : cards[k] = "absent")
  BY <1>1, <1>2, ThrowOutside DEF CreateCards
<1>3. CASE /\ deck # None \/ "deck" \in pending[s]
           /\ \A k \in run[s].missing : cards[k] = "absent"
  <2>1. /\ pending' = [pending EXCEPT ![s] = @ \cup run[s].missing] /\ Go(s, "commit")
    BY <1>3 DEF CreateCards
  <2>2. /\ OwnStep(s) /\ run'[s].pc = "commit" /\ run'[s].user = run[s].user
        /\ run'[s].unread = run[s].unread /\ run'[s].missing = run[s].missing
    BY <2>1, GoEffect DEF FixtureInv, Locals
  <2>3. run[s].user # None /\ Foreign(s) /\ Kept(s) /\ Transaction(s)
    BY <1>1 DEF FixtureInv, Users, Known, Preflight
  <2>4. (Foreign(s) /\ Kept(s))'
    BY <1>1, <2>2, <2>3 DEF Foreign, Kept, Stale, Preflight
  <2>5. pending'[s] = pending[s] \cup run[s].missing
    BY <2>1 DEF FixtureInv
  <2>6. Transaction(s)'
    <3>1. \A k \in pending'[s] \cap Fixture : cards[k] = "absent"
      BY <1>3, <2>3, <2>5 DEF Transaction
    <3>2. "deck" \in pending'[s] <=> "deck" \in pending[s]
      BY <2>3, <2>5, DocsAssumption DEF Transaction
    <3>3. pending[s] = {"deck"} \/ (pending[s] = {} /\ run[s].missing # {})
      BY <1>1, <2>3 DEF Transaction
    <3>4. /\ pending'[s] \subseteq {"deck"} \cup Fixture
          /\ run[s].missing \subseteq pending'[s] /\ pending'[s] # {}
      BY <2>3, <2>5, <3>3 DEF Transaction
    <3> QED
      BY <1>1, <1>3, <2>2, <2>3, <3>1, <3>2, <3>4 DEF Transaction, Before, Stale
  <2>7. \A o \in Seed \ {s} : pending[o] \cap (pending[s] \cup run[s].missing) = {}
    BY <1>1 DEF Free, FixtureInv, Disjoint
  <2>8. pending' = [pending EXCEPT ![s] = pending[s] \cup run[s].missing]
    BY <2>1
  <2> QED
    BY <1>1, <2>2, <2>3, <2>4, <2>6, <2>7, <2>8, Within DEF Preflight
<1> QED
  BY <1>2, <1>3

\* What a commit does to the fixtures: the deck is its owner's, the cards that
\* were missing are there, unless one was deleted after the seed had seen it.
LEMMA CommitCompletes ==
  ASSUME FixtureInv, NEW s \in Seed, Commit(s)
  PROVE  /\ deck' \in Owner /\ deck \in {None, deck'} /\ UNCHANGED deleted
         /\ \A k \in Fixture : cards[k] # "foreign"
         /\ \A k \in Fixture :
              cards'[k] = IF k \in pending[s] THEN "canonical" ELSE cards[k]
         /\ \A k \in pending[s] \cap Fixture : cards[k] = "absent"
         /\ \A k \in Fixture \ pending[s] : cards[k] = "absent" => k \in deleted
<1>1. /\ run[s].pc = "commit" /\ UNCHANGED deleted
      /\ deck' = IF "deck" \in pending[s] THEN run[s].user ELSE deck
      /\ cards' = [k \in Fixture |-> IF k \in pending[s] THEN "canonical" ELSE cards[k]]
  BY DEF Commit, At
<1>2. /\ Foreign(s) /\ Kept(s) /\ Transaction(s) /\ run[s].user \in Owner
      /\ deck \in Owner \cup {Other, None}
  BY <1>1 DEF FixtureInv, Users, Known, Preflight
<1>3. run[s].unread = {} /\ run[s].missing \subseteq pending[s]
  BY <1>1, <1>2 DEF Transaction
<1>4. deck' \in Owner /\ deck \in {None, deck'}
  BY <1>1, <1>2 DEF Transaction, Foreign, Preflight
<1>5. \A k \in Fixture : cards[k] # "foreign"
  BY <1>1, <1>2, <1>3 DEF Foreign, Preflight
<1>6. ASSUME NEW k \in Fixture \ pending[s], cards[k] = "absent" PROVE k \in deleted
  <2>1. k \in deleted \/ Stale(s)
    BY <1>1, <1>2, <1>3, <1>6 DEF Kept, Preflight
  <2>2. CASE Stale(s)
    BY <1>1, <1>2, <1>6, <2>2 DEF Transaction, FixtureInv, Rebuilt
  <2> QED
    BY <2>1, <2>2
<1>7. \A k \in pending[s] \cap Fixture : cards[k] = "absent"
  BY <1>2 DEF Transaction
<1> QED
  BY <1>1, <1>4, <1>5, <1>6, <1>7

LEMMA CommitFixtures ==
  ASSUME FixtureInv, NEW s \in Seed, Commit(s)
  PROVE  FixtureInv'
<1>1. /\ run[s].pc = "commit" /\ UNCHANGED <<user, deleted>> /\ Go(s, "cleanup")
      /\ pending' = [pending EXCEPT ![s] = {}]
      /\ deck' = IF "deck" \in pending[s] THEN run[s].user ELSE deck
      /\ cards' = [k \in Fixture |-> IF k \in pending[s] THEN "canonical" ELSE cards[k]]
  BY DEF Commit, At, logins
<1>2. /\ OwnStep(s) /\ run'[s].pc = "cleanup" /\ run'[s].user = run[s].user
      /\ run'[s].unread = run[s].unread /\ run'[s].missing = run[s].missing
  BY <1>1, GoEffect DEF FixtureInv, Locals
<1>3. \A o \in Seed \ {s} : run'[o] = run[o] /\ pending'[o] = pending[o]
  BY <1>1, <1>2 DEF OwnStep, FixtureInv
<1>4. pending'[s] = {} /\ pending' = [o \in Seed |-> pending'[o]]
  BY <1>1 DEF FixtureInv
<1>5. deck' \in Owner /\ deck' # Other /\ deck' # None
  BY CommitCompletes, OwnerOther
<1>6. Users'
  <2>1. ASSUME NEW o \in Seed, run'[o].pc \in {"find", "sign-up"}
        PROVE  user # o /\ \A q \in Seed : run'[q].user # o
    <3>1. user # o /\ \A q \in Seed : run[q].user # o
      BY <1>2, <1>3, <2>1 DEF FixtureInv, Users
    <3> QED
      BY <1>2, <1>3, <3>1
  <2> QED
    BY <1>1, <1>2, <1>3, <2>1 DEF FixtureInv, Users, Known, Preflight
<1>7. Disjoint'
  BY <1>3, <1>4 DEF FixtureInv, Disjoint
<1>8. \A o \in Seed : Stale(o)' <=> Stale(o)
  BY <1>1, <1>2, <1>3 DEF Stale
<1>9. ASSUME NEW o \in Seed, o # s PROVE (Foreign(o) /\ Kept(o) /\ Transaction(o))'
  <2>1. run'[o] = run[o] /\ pending'[o] = pending[o] /\ Foreign(o) /\ Kept(o) /\ Transaction(o)
    BY <1>3, <1>9 DEF FixtureInv
  <2>2. Foreign(o)'
    BY <1>1, <1>5, <2>1 DEF Foreign
  <2>3. Kept(o)'
    BY <1>1, <1>8, <2>1 DEF Kept
  <2>4. pending[o] \cap pending[s] = {}
    BY <1>9 DEF FixtureInv, Disjoint
  <2>5. "deck" \in pending[o] => deck' = deck
    BY <1>1, <2>4
  <2>6. \A k \in pending[o] \cap Fixture : cards'[k] = "absent"
    BY <1>1, <2>1, <2>4 DEF Transaction
  <2>7. Transaction(o)'
    BY <1>5, <1>8, <2>1, <2>5, <2>6 DEF Transaction
  <2> QED
    BY <2>2, <2>3, <2>7
<1>10. (Foreign(s) /\ Kept(s))'
  BY <1>2 DEF Foreign, Kept, Preflight
<1>11. Transaction(s)'
  BY <1>2, <1>4 DEF FixtureInv, Transaction, Before
<1>12. Rebuilt'
  <2>1. ASSUME NEW k \in Fixture, cards'[k] = "absent" PROVE k \in deleted
    BY <2>1, CommitCompletes
  <2> QED
    BY <1>1, <2>1 DEF Rebuilt
<1> QED
  BY <1>1, <1>2, <1>4, <1>5, <1>6, <1>7, <1>9, <1>10, <1>11, <1>12 DEF FixtureInv, OwnStep

LEMMA FindFixtures ==
  ASSUME FixtureInv, NEW s \in Seed, FindUser(s) \/ FindAgain(s)
  PROVE  FixtureInv'
<1>1. /\ UNCHANGED <<user, deck, cards, deleted>>
      /\ run[s].pc \in {"find", "find again"} /\ run[s].pc \in Before
  BY DEF FindUser, FindAgain, At, logins, fixtures, Before
<1>2. CASE Throw(s)
  BY <1>1, <1>2, ThrowOutside
<1>3. ASSUME NEW pc, Have(s, user, pc), UNCHANGED pending, pc \in {"sign-up", "sign-in"},
             pc = "sign-up" => run[s].pc = "find", pc = "sign-in" => user # None
      PROVE  FixtureInv'
  <2>1. /\ OwnStep(s) /\ run'[s].pc = pc /\ run'[s].user = user
        /\ run'[s].unread = run[s].unread /\ run'[s].missing = run[s].missing
    BY <1>3, HaveEffect DEF FixtureInv, Locals
  <2>2. pending' = [pending EXCEPT ![s] = {}]
    BY <1>1, <1>3, Unopened
  <2> QED
    BY <1>1, <1>3, <2>1, <2>2, Outside DEF Preflight, Known
<1>4. CASE FindUser(s)
  <2>1. CASE user = None
    BY <1>1, <1>3, <1>4, <2>1 DEF FindUser, At
  <2>2. CASE user # None
    BY <1>1, <1>3, <1>4, <2>2 DEF FindUser, At
  <2> QED
    BY <2>1, <2>2
<1>5. CASE FindAgain(s)
  BY <1>2, <1>3, <1>5 DEF FindAgain
<1> QED
  BY <1>4, <1>5

LEMMA AccountFixtures ==
  ASSUME FixtureInv, NEW s \in Seed, LinkAccount(s) \/ AutoSignIn(s)
  PROVE  FixtureInv'
<1>1. /\ UNCHANGED <<user, deck, cards, deleted>>
      /\ run[s].pc \in {"account", "auto"}
  BY DEF LinkAccount, AutoSignIn, At, logins, fixtures
<1>2. run[s].pc \in Before /\ pending = [pending EXCEPT ![s] = {}]
  BY <1>1, Unopened DEF Before
<1>3. CASE Throw(s)
  BY <1>1, <1>3, ThrowOutside
<1>4. CASE Go(s, "auto") /\ UNCHANGED pending
  BY <1>1, <1>2, <1>4, GoOutside DEF Preflight, Known
<1>5. CASE run' = [run EXCEPT ![s].minted = {<<s, "sign-up">>}, ![s].pc = "find again"] /\ UNCHANGED pending
  <2>1. Shape /\ s \in Seed \cup Reset
    BY DEF FixtureInv
  <2>2. /\ OwnStep(s) /\ run'[s].pc = "find again" /\ run'[s].user = run[s].user
        /\ run'[s].unread = run[s].unread /\ run'[s].missing = run[s].missing
    BY <1>5, <2>1, AutoEffect DEF Locals
  <2> QED
    BY <1>1, <1>2, <1>5, <2>2, Outside DEF Preflight, Known
<1> QED
  BY <1>3, <1>4, <1>5 DEF LinkAccount, AutoSignIn

LEMMA SignInFixtures ==
  ASSUME FixtureInv, NEW s \in Seed, VerifyPassword(s) \/ MintSession(s)
  PROVE  FixtureInv'
<1>1. /\ UNCHANGED <<user, deck, cards, deleted>>
      /\ run[s].pc \in {"sign-in", "session"}
  BY DEF VerifyPassword, MintSession, At, logins, fixtures
<1>2. /\ run[s].pc \in Before /\ run[s].user # None
      /\ pending = [pending EXCEPT ![s] = {}]
  BY <1>1, Unopened DEF Before, Known, FixtureInv, Users
<1>3. CASE Throw(s)
  BY <1>1, <1>3, ThrowOutside
<1>4. CASE ~Throw(s)
  <2>1. Shape /\ s \in Seed \cup Reset
    BY DEF FixtureInv
  <2>2. /\ \/ run' = [run EXCEPT ![s].verified = user, ![s].pc = "session"]
           \/ run' = [run EXCEPT ![s].minted = @ \cup {<<s, "sign-in">>}, ![s].pc = "deck"]
        /\ UNCHANGED pending
    BY <1>4 DEF VerifyPassword, MintSession
  <2>3. /\ OwnStep(s) /\ run'[s].pc \in {"session", "deck"} /\ run'[s].user = run[s].user
        /\ run'[s].unread = run[s].unread /\ run'[s].missing = run[s].missing
    BY <2>1, <2>2, VerifiedEffect, MintEffect DEF Locals
  <2> QED
    BY <1>1, <1>2, <2>2, <2>3, Outside DEF Preflight
<1> QED
  BY <1>3, <1>4

LEMMA EndFixtures ==
  ASSUME FixtureInv, NEW s \in Seed, Cleanup(s) \/ Disconnect(s) \/ Fail(s) \/ Kill(s)
  PROVE  FixtureInv'
<1>1. UNCHANGED <<user, deck, cards, deleted>>
  BY DEF Cleanup, Disconnect, Fail, Kill, logins, fixtures
<1>2. CASE Fail(s)
  BY <1>1, <1>2, ThrowOutside DEF Fail
<1>3. CASE Kill(s)
  BY <1>1, <1>3, GoOutside DEF Kill, Preflight, Known, Before
<1>4. CASE Cleanup(s) \/ Disconnect(s)
  <2>1. run[s].pc \in {"cleanup", "disconnect"} /\ UNCHANGED pending
    BY <1>4 DEF Cleanup, Disconnect, At
  <2>2. pending = [pending EXCEPT ![s] = {}]
    BY <2>1, Unopened
  <2>3. ASSUME NEW pc \in {"disconnect", "0", "1"}, Go(s, pc) PROVE FixtureInv'
    BY <1>1, <2>1, <2>2, <2>3, GoOutside DEF Preflight, Known, Before
  <2>4. CASE run' = [run EXCEPT ![s].failed = TRUE, ![s].cleanupFailed = TRUE, ![s].pc = "disconnect"]
    <3>1. /\ OwnStep(s) /\ run'[s].pc = "disconnect" /\ run'[s].user = run[s].user
          /\ run'[s].unread = run[s].unread /\ run'[s].missing = run[s].missing
      BY <2>4, CleanupFails DEF FixtureInv, Locals
    <3> QED
      BY <1>1, <2>1, <2>2, <3>1, Outside DEF Preflight, Known, Before
  <2> QED
    BY <1>4, <2>3, <2>4 DEF Cleanup, Disconnect
<1> QED
  BY <1>2, <1>3, <1>4

LEMMA SeedFixtures ==
  ASSUME FixtureInv, NEW s \in Seed, SeedStep(s)
  PROVE  FixtureInv'
BY FindFixtures, SignUpFixtures, AccountFixtures, SignInFixtures, ReadDeckFixtures,
   ReadCardFixtures, ReconcileFixtures, CreateDeckFixtures, CreateCardsFixtures,
   CommitFixtures, EndFixtures DEF SeedStep

\* A reset changes its own record only.
LEMMA ResetEffect ==
  ASSUME Shape, NEW r \in Reset, ResetStep(r)
  PROVE  Shape' /\ \A s \in Seed : run'[s] = run[s]
<1>1. CASE \E pc \in {"disconnect", "0", "1"} : Go(r, pc)
  BY <1>1, GoEffect, DocsAssumption DEF OwnStep
<1>2. CASE run' = [run EXCEPT ![r].failed = TRUE, ![r].pc = "disconnect"]
  <2>1. r \in DOMAIN run /\ run[r] = Fields(run[r])
    BY RunShape
  <2>2. run' = [run EXCEPT ![r] = run'[r]] /\ run'[r] = Fields(run'[r])
    BY <1>2, <2>1 DEF Fields
  <2> QED
    BY <2>2, Updated, DocsAssumption DEF OwnStep
<1> QED
  BY <1>1, <1>2 DEF ResetStep, Truncate, Disconnect

\* A reset waits for the open transactions; what a seed knew is stale after it.
LEMMA ResetFixtures ==
  ASSUME FixtureInv, NEW r \in Reset, ResetStep(r)
  PROVE  FixtureInv'
<1>1. Shape' /\ \A s \in Seed : run'[s] = run[s]
  BY ResetEffect DEF FixtureInv
<1>2. CASE UNCHANGED <<user, deck, cards, deleted, pending>>
  <2>1. Users' /\ Disjoint' /\ Rebuilt'
    BY <1>1, <1>2 DEF FixtureInv, Users, Disjoint, Rebuilt, Stale
  <2>2. ASSUME NEW s \in Seed PROVE (Foreign(s) /\ Kept(s) /\ Transaction(s))'
    <3>1. Foreign(s) /\ Kept(s) /\ Transaction(s) /\ run'[s] = run[s]
      BY <1>1 DEF FixtureInv
    <3>2. (Foreign(s) /\ Kept(s))'
      BY <1>2, <3>1 DEF Foreign, Kept, Stale
    <3>3. Transaction(s)'
      BY <1>2, <3>1 DEF Transaction, Stale
    <3> QED
      BY <3>2, <3>3
  <2> QED
    BY <1>1, <1>2, <2>1, <2>2 DEF FixtureInv
<1>3. CASE /\ \A s \in Seed : pending[s] = {}
           /\ user' = None /\ deck' = None /\ cards' = [k \in Fixture |-> "absent"]
           /\ UNCHANGED <<deleted, pending>>
  <2>1. Users' /\ Disjoint' /\ Rebuilt'
    BY <1>1, <1>3, DocsAssumption DEF FixtureInv, Users, Disjoint, Rebuilt
  <2>2. ASSUME NEW s \in Seed PROVE (Foreign(s) /\ Kept(s) /\ Transaction(s))'
    <3>1. Foreign(s) /\ Kept(s) /\ Transaction(s) /\ run'[s] = run[s]
      BY <1>1 DEF FixtureInv
    <3>2. Foreign(s)'
      BY <1>3, <3>1, OwnerOther DEF Foreign
    <3>3. Kept(s)'
      BY <1>3, <3>1 DEF Kept, Stale, FixtureInv, Users, Known
    <3>4. Transaction(s)'
      BY <1>3, <3>1 DEF Transaction
    <3> QED
      BY <3>2, <3>3, <3>4
  <2> QED
    BY <1>1, <1>3, <2>1, <2>2 DEF FixtureInv
<1> QED
  BY <1>2, <1>3 DEF ResetStep, Truncate, Disconnect, logins, fixtures

\* The developer's deletions are on record; the deck goes when it is empty.
LEMMA DevelopFixtures ==
  ASSUME FixtureInv, Develop
  PROVE  FixtureInv'
<1>1. UNCHANGED <<user, run, pending>>
  BY DEF Develop
<1>2. Users' /\ Disjoint' /\ Shape'
  BY <1>1 DEF FixtureInv, Users, Disjoint, Shape
<1>3. \A s \in Seed : Foreign(s) /\ Kept(s) /\ Transaction(s) /\ (Stale(s)' <=> Stale(s))
  BY <1>1 DEF FixtureInv, Stale
<1>4. CASE UNCHANGED <<deck, cards, deleted>>
  <2>1. \A s \in Seed : (Foreign(s) /\ Kept(s))'
    BY <1>1, <1>3, <1>4 DEF Foreign, Kept
  <2>2. \A s \in Seed : Transaction(s)'
    BY <1>1, <1>3, <1>4 DEF Transaction
  <2> QED
    BY <1>1, <1>2, <1>3, <1>4, <2>1, <2>2 DEF FixtureInv, Rebuilt
<1>5. ASSUME NEW k \in Fixture, NEW to \in {"edited", "absent"}, cards[k] = "canonical",
             cards' = [cards EXCEPT ![k] = to], deck' = deck,
             deleted' = deleted \cup (IF to = "absent" THEN {k} ELSE {})
      PROVE  FixtureInv'
  <2>1. /\ cards' = [j \in Fixture |-> cards'[j]] /\ cards'[k] = to
        /\ \A j \in Fixture \ {k} : cards'[j] = cards[j]
    BY <1>5 DEF FixtureInv
  <2>2. deleted \subseteq deleted' /\ (to = "absent" => k \in deleted')
    BY <1>5
  <2>3. \A s \in Seed : Foreign(s)'
    BY <1>1, <1>3, <1>5, <2>1 DEF Foreign
  <2>4. \A s \in Seed : Kept(s)'
    BY <1>1, <1>3, <2>1, <2>2 DEF Kept
  <2>5. \A s \in Seed : Transaction(s)'
    BY <1>1, <1>3, <1>5, <2>1 DEF Transaction
  <2>6. Rebuilt'
    BY <1>3, <1>5, <2>1, <2>2 DEF FixtureInv, Rebuilt
  <2> QED
    BY <1>1, <1>2, <1>5, <2>1, <2>3, <2>4, <2>5, <2>6 DEF FixtureInv
<1>6. CASE /\ deck' = None /\ UNCHANGED <<cards, deleted>>
           /\ \A s \in Seed : pending[s] = {}
  <2>1. \A s \in Seed : (Foreign(s) /\ Kept(s))'
    BY <1>1, <1>3, <1>6, OwnerOther DEF Foreign, Kept
  <2>2. \A s \in Seed : Transaction(s)'
    BY <1>1, <1>3, <1>6 DEF Transaction
  <2>3. Rebuilt'
    BY <1>6 DEF Rebuilt
  <2> QED
    BY <1>1, <1>2, <1>6, <2>1, <2>2, <2>3 DEF FixtureInv
<1> QED
  BY <1>4, <1>5, <1>6 DEF Develop

LEMMA NextFixtures == FixtureInv /\ [Next]_vars => FixtureInv'
<1> SUFFICES ASSUME FixtureInv, [Next]_vars PROVE FixtureInv'
  OBVIOUS
<1>1. CASE UNCHANGED vars
  <2>1. UNCHANGED <<user, deck, cards, deleted, pending, run>>
    BY <1>1 DEF vars, logins, fixtures
  <2>2. ASSUME NEW s \in Seed PROVE (Foreign(s) /\ Kept(s) /\ Transaction(s))'
    <3>1. Foreign(s) /\ Kept(s) /\ Transaction(s)
      BY DEF FixtureInv
    <3> QED
      BY <2>1, <3>1 DEF Foreign, Kept, Transaction, Stale
  <2> QED
    BY <2>1, <2>2 DEF FixtureInv, Shape, Users, Disjoint, Rebuilt, Stale
<1> QED
  BY <1>1, SeedFixtures, ResetFixtures, DevelopFixtures DEF Next

\* What a seed has written in its transaction, and what it has read, fits the
\* fixtures that are committed, whatever resets and edits came between.
THEOREM FixtureInvariant == Spec => []FixtureInv
BY InitFixtures, NextFixtures, PTL DEF Spec

-----------------------------------------------------------------------------
(* The refinement                                                          *)

LEMMA PromiseInit == Init => Promise!Init
BY DEF Init, Promise!Init

LEMMA PromiseStep == FixtureInv /\ [Next]_vars => [Promise!Next]_<<deck, cards, deleted>>
<1> SUFFICES ASSUME FixtureInv, Next, ~UNCHANGED <<deck, cards, deleted>>
             PROVE  Promise!Next
  BY DEF vars, fixtures
<1>1. ASSUME NEW s \in Seed, SeedStep(s) PROVE Promise!Next
  <2>1. Commit(s)
    BY <1>1 DEF SeedStep, FindUser, SignUp, LinkAccount, AutoSignIn, FindAgain, VerifyPassword,
                MintSession, ReadDeck, ReadCard, Reconcile, CreateDeck, CreateCards, Cleanup,
                Disconnect, Fail, Kill, fixtures
  <2> DEFINE kept == {k \in Fixture : cards[k] = "absent" /\ k \notin pending[s]}
  <2>2. kept \in SUBSET deleted
    BY <2>1, CommitCompletes
  <2>3. cards' = [k \in Fixture |-> IF cards[k] = "absent" /\ k \notin kept
                                     THEN "canonical" ELSE cards[k]]
    <3>1. cards' = [k \in Fixture |-> IF k \in pending[s] THEN "canonical" ELSE cards[k]]
      BY <2>1 DEF Commit
    <3>2. \A k \in Fixture : k \in pending[s] <=> cards[k] = "absent" /\ k \notin kept
      BY <2>1, CommitCompletes
    <3> QED
      BY <3>1, <3>2
  <2>4. Promise!Complete(deck')
    BY <2>1, <2>2, <2>3, CommitCompletes DEF Promise!Complete
  <2>5. deck' \in Owner
    BY <2>1, CommitCompletes
  <2> QED
    BY <2>4, <2>5 DEF Promise!Next
<1>2. ASSUME NEW r \in Reset, ResetStep(r) PROVE Promise!Next
  BY <1>2 DEF ResetStep, Truncate, Disconnect, fixtures, Promise!Next, Promise!Erase
<1>3. CASE Develop
  <2>1. CASE Promise!Edit
    BY <2>1 DEF Promise!Next
  <2>2. CASE ~Promise!Edit
    BY <1>3, <2>2 DEF Develop, Promise!Next, Promise!Edit, Promise!DeleteDeck
  <2> QED
    BY <2>1, <2>2
<1> QED
  BY <1>1, <1>2, <1>3 DEF Next

\* The seed, await by await, with its failures, its races and the resets around
\* it, does to the fixtures what FixturePromise says (developmentData.ts:333).
THEOREM SeedIsAtomic == Spec => AtomicSeed
<1>1. Init => Promise!Init
  BY PromiseInit
<1>2. FixtureInv /\ [Next]_vars => [Promise!Next]_<<deck, cards, deleted>>
  BY PromiseStep
<1> QED
  BY <1>1, <1>2, FixtureInvariant, PTL DEF Spec, AtomicSeed, Promise!Spec
-----------------------------------------------------------------------------
(* The complete seed                                                       *)

SignedIn == {"session", "deck"} \cup Preflight
Finished(s) == run[s].pc = "0" \/ (run[s].pc \in {"cleanup", "disconnect"} /\ ~run[s].failed)

\* Who can sign in: a password and sessions only with a user, and an account
\* that is still to be linked has no password.
Account ==
  /\ password \in {"none", "documented", "changed"}
  /\ sessions \subseteq Token
  /\ user = None => password = "none" /\ sessions = {}
  /\ \A s \in Seed :
       /\ run[s].pc = "session" => run[s].verified # None
       /\ run[s].pc = "account" /\ user = s => password = "none"

\* The deck is never a former user's, and no card of ours is without it.
Rows ==
  /\ deck \in {user, Other, None}
  /\ cards \in [Fixture -> {"absent", "canonical", "edited", "foreign"}]
  /\ deck = None => \A k \in Fixture : cards[k] \in {"absent", "foreign"}

There == deck = user /\ \A k \in Fixture : cards[k] \in {"canonical", "edited"}

\* What a seed has found, verified and completed still is so.
Followed(s) ==
  /\ run[s].user # None => user = run[s].user
  /\ run[s].pc \in SignedIn \/ Finished(s) => password = "documented"
  /\ Finished(s) => There /\ run[s].user # None

SeedInv ==
  /\ Account /\ Rows /\ faults \in 0..MaxFaults
  /\ Undisturbed => \A s \in Seed : Followed(s)

LEMMA TokenOwn == \A s \in Seed : OwnTokens(s) \subseteq Token
BY DEF OwnTokens, Token

\* A step that follows: the user and the fixtures are left alone, the run goes
\* on only from where it was signed in or with a password just verified, and
\* does not finish.
Quiet(s) ==
  /\ OwnStep(s) /\ UNCHANGED <<user, password, deck, cards, deleted>>
  /\ run'[s].user \in {run[s].user, user}
  /\ run'[s].pc # "account"
  /\ run'[s].pc = "session" => run'[s].verified = user /\ password = "documented"
  /\ run'[s].pc \in SignedIn => run[s].pc \in SignedIn \/ password = "documented"
  /\ Finished(s)' => Finished(s)

LEMMA ThrowQuiet ==
  ASSUME Shape, NEW s \in Seed, Throw(s), UNCHANGED <<user, password, deck, cards, deleted>>
  PROVE  Quiet(s)
<1>1. /\ OwnStep(s) /\ run'[s].pc \in {"cleanup", "disconnect"} /\ run'[s].failed
      /\ run'[s].user = run[s].user
  BY ThrowEffect DEF Locals, CleanupOrEnd
<1> QED
  BY <1>1 DEF Quiet, SignedIn, Preflight, Finished

LEMMA GoQuiet ==
  ASSUME Shape, NEW s \in Seed, NEW pc, Go(s, pc), pc \notin {"account", "session"},
         UNCHANGED <<user, password, deck, cards, deleted>>,
         pc \in SignedIn => run[s].pc \in SignedIn,
         pc = "0" \/ (pc \in {"cleanup", "disconnect"} /\ ~run[s].failed) => Finished(s)
  PROVE  Quiet(s)
<1>1. /\ OwnStep(s) /\ run'[s].pc = pc /\ run'[s].user = run[s].user
      /\ run'[s].failed = run[s].failed
  BY GoEffect DEF Locals
<1> QED
  BY <1>1 DEF Quiet, Finished

\* The steps that find, verify, mint and read.
LEMMA FindQuiet ==
  ASSUME Shape, NEW s \in Seed, FindUser(s) \/ FindAgain(s)
  PROVE  Quiet(s)
<1>1. UNCHANGED <<user, password, deck, cards, deleted>>
  BY DEF FindUser, FindAgain, logins, fixtures
<1>2. ASSUME NEW pc \in {"sign-up", "sign-in"}, Have(s, user, pc) PROVE Quiet(s)
  <2>1. OwnStep(s) /\ run'[s].pc = pc /\ run'[s].user = user
    BY <1>2, HaveEffect DEF Locals
  <2> QED
    BY <1>1, <2>1 DEF Quiet, Finished, SignedIn, Preflight
<1>3. CASE Throw(s)
  BY <1>1, <1>3, ThrowQuiet
<1>4. CASE FindUser(s)
  <2>1. CASE user = None
    BY <1>2, <1>4, <2>1 DEF FindUser
  <2>2. CASE user # None
    BY <1>2, <1>4, <2>2 DEF FindUser
  <2> QED
    BY <2>1, <2>2
<1> QED
  BY <1>2, <1>3, <1>4 DEF FindAgain

LEMMA MintQuiet ==
  ASSUME Shape, NEW s \in Seed, AutoSignIn(s) \/ VerifyPassword(s) \/ MintSession(s)
  PROVE  Quiet(s)
<1>1. UNCHANGED <<user, password, deck, cards, deleted>>
  BY DEF AutoSignIn, VerifyPassword, MintSession, logins, fixtures
<1>2. CASE Throw(s)
  BY <1>1, <1>2, ThrowQuiet
<1>3. CASE run' = [run EXCEPT ![s].minted = {<<s, "sign-up">>}, ![s].pc = "find again"]
  <2>1. OwnStep(s) /\ run'[s].pc = "find again" /\ run'[s].user = run[s].user
    BY <1>3, AutoEffect DEF Locals
  <2> QED
    BY <1>1, <2>1 DEF Quiet, Finished, SignedIn, Preflight
<1>4. CASE /\ run' = [run EXCEPT ![s].verified = user, ![s].pc = "session"]
           /\ password = "documented"
  <2>1. /\ OwnStep(s) /\ run'[s].pc = "session" /\ run'[s].user = run[s].user
        /\ run'[s].verified = user
    BY <1>4, VerifiedEffect DEF Locals
  <2> QED
    BY <1>1, <1>4, <2>1 DEF Quiet, Finished
<1>5. CASE /\ run' = [run EXCEPT ![s].minted = @ \cup {<<s, "sign-in">>}, ![s].pc = "deck"]
           /\ run[s].pc = "session"
  <2>1. OwnStep(s) /\ run'[s].pc = "deck" /\ run'[s].user = run[s].user
    BY <1>5, MintEffect DEF Locals
  <2> QED
    BY <1>1, <1>5, <2>1 DEF Quiet, Finished, SignedIn
<1> QED
  BY <1>2, <1>3, <1>4, <1>5 DEF AutoSignIn, VerifyPassword, MintSession, At

LEMMA ReadQuiet ==
  ASSUME Shape, NEW s \in Seed, ReadDeck(s) \/ ReadCard(s)
  PROVE  Quiet(s)
<1>1. /\ UNCHANGED <<user, password, deck, cards, deleted>>
      /\ run[s].pc \in {"deck", "cards"}
  BY DEF ReadDeck, ReadCard, At, logins, fixtures
<1>2. CASE Throw(s)
  BY <1>1, <1>2, ThrowQuiet
<1>3. CASE run' = [run EXCEPT ![s].deck = deck, ![s].pc = "cards"]
  <2>1. OwnStep(s) /\ run'[s].pc = "cards" /\ run'[s].user = run[s].user
    BY <1>3, DeckEffect DEF Locals
  <2> QED
    BY <1>1, <2>1 DEF Quiet, Finished, SignedIn, Preflight
<1>4. ASSUME NEW k \in run[s].unread,
             run' = [run EXCEPT ![s].unread = @ \ {k},
                       ![s].missing = IF cards[k] = "absent" THEN @ \cup {k} ELSE @]
      PROVE  Quiet(s)
  <2>1. OwnStep(s) /\ run'[s].pc = run[s].pc /\ run'[s].user = run[s].user
    BY <1>4, ReadEffect DEF Locals
  <2> QED
    BY <1>1, <2>1 DEF Quiet, Finished, SignedIn, Preflight
<1>5. CASE ReadDeck(s)
  BY <1>2, <1>3, <1>5 DEF ReadDeck
<1> QED
  BY <1>2, <1>4, <1>5 DEF ReadCard

\* The creates, which write to the transaction, and the ways a run ends.
LEMMA CreateQuiet ==
  ASSUME Shape, NEW s \in Seed, CreateDeck(s) \/ CreateCards(s)
  PROVE  Quiet(s)
<1>1. /\ UNCHANGED <<user, password, deck, cards, deleted>>
      /\ run[s].pc \in {"create deck", "create cards"}
  BY DEF CreateDeck, CreateCards, At, logins, fixtures
<1>2. CASE Throw(s)
  BY <1>1, <1>2, ThrowQuiet
<1>3. ASSUME NEW pc \in {"create cards", "commit"}, Go(s, pc) PROVE Quiet(s)
  BY <1>1, <1>3, GoQuiet DEF SignedIn, Preflight
<1> QED
  BY <1>2, <1>3 DEF CreateDeck, CreateCards

LEMMA EndQuiet ==
  ASSUME Shape, NEW s \in Seed, Cleanup(s) \/ Disconnect(s) \/ Fail(s) \/ Kill(s)
  PROVE  Quiet(s)
<1>1. UNCHANGED <<user, password, deck, cards, deleted>>
  BY DEF Cleanup, Disconnect, Fail, Kill, logins, fixtures
<1>2. CASE Fail(s)
  BY <1>1, <1>2, ThrowQuiet DEF Fail
<1>3. CASE Kill(s)
  BY <1>1, <1>3, GoQuiet DEF Kill, SignedIn, Preflight
<1>4. CASE run' = [run EXCEPT ![s].failed = TRUE, ![s].cleanupFailed = TRUE, ![s].pc = "disconnect"]
  <2>1. /\ OwnStep(s) /\ run'[s].pc = "disconnect" /\ run'[s].failed
        /\ run'[s].user = run[s].user
    BY <1>4, CleanupFails DEF Locals
  <2> QED
    BY <1>1, <2>1 DEF Quiet, Finished, SignedIn, Preflight
<1>5. CASE Cleanup(s)
  BY <1>1, <1>4, <1>5, GoQuiet DEF Cleanup, At, Finished, SignedIn, Preflight
<1>6. CASE Disconnect(s)
  <2>1. ASSUME NEW pc \in {"0", "1"}, Go(s, pc), pc = "0" => ~run[s].failed PROVE Quiet(s)
    BY <1>1, <1>6, <2>1, GoQuiet DEF Disconnect, At, Finished, SignedIn, Preflight
  <2> QED
    BY <1>6, <2>1 DEF Disconnect
<1> QED
  BY <1>2, <1>3, <1>5, <1>6

\* Sessions come with a user: the one just signed up, or the one verified.
LEMMA SeedLogins ==
  ASSUME SessionInv, Account, NEW s \in Seed, SeedStep(s)
  PROVE  sessions' \subseteq Token /\ (user' = None => user = None /\ sessions' = {})
<1>1. sessions' \subseteq Token
  <2>1. SessionStep(s)
    BY SeedSessions
  <2> QED
    BY <2>1, TokenOwn DEF SessionStep, Account
<1>2. user' \in {user, s}
  BY DEF SeedStep, FindUser, SignUp, LinkAccount, AutoSignIn, FindAgain, VerifyPassword,
         MintSession, ReadDeck, ReadCard, Reconcile, CreateDeck, CreateCards, Commit, Cleanup,
         Disconnect, Fail, Kill, logins
<1>3. s # None
  BY DocsAssumption
<1>4. ASSUME user' = None PROVE user = None /\ sessions' = {}
  <2>1. user = None /\ sessions = {}
    BY <1>2, <1>3, <1>4 DEF Account
  <2>2. CASE AutoSignIn(s) \/ MintSession(s)
    BY <1>3, <2>1, <2>2 DEF AutoSignIn, MintSession, At, Account
  <2>3. CASE ~(AutoSignIn(s) \/ MintSession(s))
    BY <2>1, <2>3 DEF SeedStep, FindUser, SignUp, LinkAccount, FindAgain, VerifyPassword,
         ReadDeck, ReadCard, Reconcile, CreateDeck, CreateCards, Commit, Cleanup,
         Disconnect, Fail, Kill, logins
  <2> QED
    BY <2>1, <2>2, <2>3
<1> QED
  BY <1>1, <1>4

LEMMA SeedFaults ==
  ASSUME faults \in 0..MaxFaults, Next
  PROVE  faults' \in 0..MaxFaults
<1>1. faults' = faults \/ (faults < MaxFaults /\ faults' = faults + 1)
  BY DEF Next, SeedStep, FindUser, SignUp, LinkAccount, AutoSignIn, FindAgain, VerifyPassword,
         MintSession, ReadDeck, ReadCard, Reconcile, CreateDeck, CreateCards, Commit, Cleanup,
         Disconnect, Fail, Kill, ResetStep, Truncate, Develop
<1> QED
  BY <1>1, DocsAssumption

LEMMA Disturbs ==
  ASSUME Account, NEW s \in Seed, OwnStep(s), UNCHANGED deleted,
         password' = password \/ (user = s /\ run[s].pc = "account"), Undisturbed'
  PROVE  Undisturbed
<1>1. \A r \in Reset : run'[r] = run[r]
  BY DocsAssumption DEF OwnStep
<1>2. password # "changed"
  BY DEF Account, Undisturbed
<1> QED
  BY <1>1, <1>2 DEF Undisturbed

LEMMA QuietComplete ==
  ASSUME SeedInv, NEW s \in Seed, Quiet(s), sessions' \subseteq Token,
         user' = None => sessions' = {}
  PROVE  Account' /\ Rows' /\ (Undisturbed' => \A o \in Seed : Followed(o)')
<1>1. \A o \in Seed \ {s} : run'[o] = run[o]
  BY DEF Quiet, OwnStep
<1>2. Account'
  <2>1. password \in {"none", "documented", "changed"} /\ (user = None => password = "none")
    BY DEF SeedInv, Account
  <2>2. run'[s].pc = "session" => run'[s].verified # None
    BY <2>1 DEF Quiet
  <2>3. \A o \in Seed \ {s} : /\ run'[o].pc = "session" => run'[o].verified # None
                              /\ run'[o].pc = "account" /\ user = o => password = "none"
    BY <1>1 DEF SeedInv, Account
  <2> QED
    BY <2>1, <2>2, <2>3 DEF Quiet, Account
<1>3. Rows'
  BY DEF Quiet, SeedInv, Rows
<1>4. ASSUME Undisturbed', NEW o \in Seed PROVE Followed(o)'
  <2>1. Undisturbed
    BY <1>4, Disturbs DEF SeedInv, Quiet
  <2>2. Followed(o) /\ Followed(s)
    BY <2>1 DEF SeedInv
  <2>3. There' <=> There
    BY DEF Quiet, There
  <2>4. CASE o # s
    BY <1>1, <2>2, <2>3, <2>4 DEF Quiet, Followed, Finished
  <2>5. CASE o = s
    <3>1. run'[s].user # None => user = run'[s].user
      BY <2>2 DEF Quiet, Followed
    <3>2. run'[s].pc \in SignedIn => password = "documented"
      BY <2>2 DEF Quiet, Followed
    <3>3. Finished(s)' => password = "documented" /\ There /\ run'[s].user # None
      BY <2>2 DEF Quiet, Followed
    <3> QED
      BY <2>3, <2>5, <3>1, <3>2, <3>3 DEF Quiet, Followed
  <2> QED
    BY <2>4, <2>5
<1> QED
  BY <1>2, <1>3, <1>4

\* Nobody has found a user where there is none, so nobody is signed in.
LEMMA SignUpComplete ==
  ASSUME FixtureInv, SeedInv, NEW s \in Seed, SignUp(s)
  PROVE  Account' /\ Rows' /\ (Undisturbed' => \A o \in Seed : Followed(o)')
<1>1. UNCHANGED <<password, sessions, deck, cards, deleted>> /\ run[s].pc = "sign-up"
  BY DEF SignUp, At, fixtures
<1>2. CASE user # None
  <2>1. Quiet(s) /\ UNCHANGED user
    BY <1>1, <1>2, ThrowQuiet DEF SignUp, FixtureInv
  <2> QED
    BY <1>1, <1>2, <2>1, QuietComplete DEF SeedInv, Account
<1>3. CASE user = None
  <2>1. user' = s /\ Go(s, "account") /\ s # None
    BY <1>3, DocsAssumption DEF SignUp
  <2>2. /\ OwnStep(s) /\ run'[s].pc = "account" /\ run'[s].user = run[s].user
    BY <2>1, GoEffect DEF FixtureInv, Locals
  <2>3. \A o \in Seed \ {s} : run'[o] = run[o]
    BY <2>2 DEF OwnStep
  <2>4. password = "none" /\ sessions = {}
    BY <1>3 DEF SeedInv, Account
  <2>5. Account'
    <3>1. sessions' \subseteq Token /\ user' # None
      BY <1>1, <2>1, <2>4
    <3>2. \A o \in Seed \ {s} : run'[o].pc = "session" => run'[o].verified # None
      BY <2>3 DEF SeedInv, Account
    <3> QED
      BY <1>1, <2>2, <2>4, <3>1, <3>2 DEF Account
  <2>6. Rows'
    BY <1>1, <1>3 DEF SeedInv, Rows
  <2>7. ASSUME Undisturbed', NEW o \in Seed PROVE Followed(o)'
    <3>1. Undisturbed
      BY <1>1, <2>2, <2>7, Disturbs DEF SeedInv
    <3>2. run[o].user = None /\ run[s].user = None
      BY <1>3, <3>1 DEF SeedInv, Followed
    <3>3. run[o].pc \notin SignedIn /\ ~Finished(o)
      BY <3>1, <3>2 DEF SeedInv, Followed, FixtureInv, Users, Known, SignedIn
    <3>4. CASE o = s
      BY <2>2, <3>2, <3>4 DEF Followed, Finished, SignedIn, Preflight
    <3>5. CASE o # s
      BY <2>3, <3>2, <3>3, <3>5 DEF Followed, Finished
    <3> QED
      BY <3>4, <3>5
  <2> QED
    BY <2>5, <2>6, <2>7
<1> QED
  BY <1>2, <1>3

LEMMA LinkComplete ==
  ASSUME FixtureInv, SeedInv, NEW s \in Seed, LinkAccount(s)
  PROVE  Account' /\ Rows' /\ (Undisturbed' => \A o \in Seed : Followed(o)')
<1>1. UNCHANGED <<user, sessions, deck, cards, deleted>> /\ run[s].pc = "account"
  BY DEF LinkAccount, At, fixtures
<1>2. CASE user # s
  <2>1. Quiet(s)
    BY <1>1, <1>2, ThrowQuiet DEF LinkAccount, FixtureInv
  <2> QED
    BY <1>1, <2>1, QuietComplete DEF SeedInv, Account
<1>3. CASE user = s
  <2>1. password' = "documented" /\ Go(s, "auto") /\ s # None
    BY <1>3, DocsAssumption DEF LinkAccount
  <2>2. /\ OwnStep(s) /\ run'[s].pc = "auto" /\ run'[s].user = run[s].user
    BY <2>1, GoEffect DEF FixtureInv, Locals
  <2>3. \A o \in Seed \ {s} : run'[o] = run[o]
    BY <2>2 DEF OwnStep
  <2>4. Account'
    <3>1. sessions' \subseteq Token /\ user' # None
      BY <1>1, <1>3, <2>1 DEF SeedInv, Account
    <3>2. \A o \in Seed \ {s} : run'[o].pc = "session" => run'[o].verified # None
      BY <2>3 DEF SeedInv, Account
    <3> QED
      BY <1>1, <1>3, <2>1, <2>2, <3>1, <3>2 DEF Account
  <2>5. Rows'
    BY <1>1 DEF SeedInv, Rows
  <2>6. ASSUME Undisturbed', NEW o \in Seed PROVE Followed(o)'
    <3>1. Followed(o) /\ Followed(s)
      BY <1>1, <1>3, <2>2, <2>6, Disturbs DEF SeedInv
    <3>2. There' <=> There
      BY <1>1 DEF There
    <3>3. CASE o = s
      BY <1>1, <2>2, <3>1, <3>3 DEF Followed, Finished, SignedIn, Preflight
    <3>4. CASE o # s
      BY <1>1, <2>1, <2>3, <3>1, <3>2, <3>4 DEF Followed, Finished
    <3> QED
      BY <3>3, <3>4
  <2> QED
    BY <2>4, <2>5, <2>6
<1> QED
  BY <1>2, <1>3

\* A preflight that finds every card, undisturbed, has found them complete.
LEMMA ReconcileComplete ==
  ASSUME FixtureInv, SeedInv, NEW s \in Seed, Reconcile(s)
  PROVE  Account' /\ Rows' /\ (Undisturbed' => \A o \in Seed : Followed(o)')
<1>1. /\ UNCHANGED <<user, password, sessions, deck, cards, deleted>>
      /\ run[s].pc = "cards" /\ run[s].unread = {}
  BY DEF Reconcile, At, logins, fixtures
<1>2. sessions' \subseteq Token /\ (user' = None => sessions' = {})
  BY <1>1 DEF SeedInv, Account
<1>3. ASSUME NEW pc \in {"create deck", "create cards"}, Go(s, pc)
      PROVE  Account' /\ Rows' /\ (Undisturbed' => \A o \in Seed : Followed(o)')
  <2>1. Quiet(s)
    BY <1>1, <1>3, GoQuiet DEF FixtureInv, SignedIn, Preflight
  <2> QED
    BY <1>2, <2>1, QuietComplete
<1>4. CASE Go(s, "cleanup") /\ run[s].missing = {}
  <2>1. /\ OwnStep(s) /\ run'[s].pc = "cleanup" /\ run'[s].user = run[s].user
    BY <1>4, GoEffect DEF FixtureInv, Locals
  <2>2. \A o \in Seed \ {s} : run'[o] = run[o]
    BY <2>1 DEF OwnStep
  <2>3. Account'
    BY <1>1, <2>1, <2>2 DEF SeedInv, Account
  <2>4. Rows'
    BY <1>1 DEF SeedInv, Rows
  <2>5. ASSUME Undisturbed', NEW o \in Seed PROVE Followed(o)'
    <3>1. Undisturbed /\ Followed(o) /\ Followed(s)
      BY <1>1, <2>1, <2>5, Disturbs DEF SeedInv
    <3>2. /\ run[s].user # None /\ user = run[s].user /\ password = "documented"
      BY <1>1, <3>1 DEF Followed, FixtureInv, Users, Known, Preflight, SignedIn
    <3>3. \A k \in Fixture : cards[k] \notin {"absent", "foreign"}
      BY <1>1, <1>4, <3>1, <3>2 DEF FixtureInv, Foreign, Kept, Preflight, Undisturbed, Stale
    <3>4. There
      <4>1. deck # None
        BY <3>3, DocsAssumption DEF SeedInv, Rows
      <4>2. deck = user
        BY <1>1, <4>1 DEF SeedInv, Rows, FixtureInv, Foreign, Preflight
      <4>3. \A k \in Fixture : cards[k] \in {"canonical", "edited"}
        BY <3>3 DEF SeedInv, Rows
      <4> QED
        BY <4>2, <4>3 DEF There
    <3>5. There'
      BY <1>1, <3>4 DEF There
    <3>6. CASE o = s
      BY <1>1, <2>1, <3>2, <3>5, <3>6 DEF Followed
    <3>7. CASE o # s
      BY <1>1, <2>2, <3>1, <3>5, <3>7 DEF Followed, Finished
    <3> QED
      BY <3>6, <3>7
  <2> QED
    BY <2>3, <2>4, <2>5
<1>5. CASE run[s].deck = None
  BY <1>3, <1>5 DEF Reconcile
<1>6. CASE run[s].deck # None /\ run[s].missing # {}
  BY <1>3, <1>6 DEF Reconcile
<1>7. CASE run[s].deck # None /\ run[s].missing = {}
  BY <1>4, <1>7 DEF Reconcile
<1> QED
  BY <1>5, <1>6, <1>7

\* A commit, undisturbed, completes the fixtures for every seed.
LEMMA CommitComplete ==
  ASSUME FixtureInv, SeedInv, NEW s \in Seed, Commit(s)
  PROVE  Account' /\ Rows' /\ (Undisturbed' => \A o \in Seed : Followed(o)')
<1>1. /\ UNCHANGED <<user, password, sessions, deleted>> /\ Go(s, "cleanup")
      /\ run[s].pc = "commit"
      /\ deck' = IF "deck" \in pending[s] THEN run[s].user ELSE deck
      /\ cards' = [k \in Fixture |-> IF k \in pending[s] THEN "canonical" ELSE cards[k]]
  BY DEF Commit, At, logins
<1>2. /\ OwnStep(s) /\ run'[s].pc = "cleanup" /\ run'[s].user = run[s].user
  BY <1>1, GoEffect DEF FixtureInv, Locals
<1>3. \A o \in Seed \ {s} : run'[o] = run[o]
  BY <1>2 DEF OwnStep
<1>4. run[s].user # None /\ Transaction(s)
  BY <1>1 DEF FixtureInv, Users, Known, Preflight
<1>5. Account'
  BY <1>1, <1>2, <1>3 DEF SeedInv, Account
<1>6. deck' \in Owner /\ deck' # None /\ deck' # Other
  BY CommitCompletes, OwnerOther
<1>7. deck' = user'
  BY <1>1, <1>4, <1>6 DEF Transaction, Stale, SeedInv, Rows
<1>8. cards' \in [Fixture -> {"absent", "canonical", "edited", "foreign"}]
  BY <1>1 DEF SeedInv, Rows
<1>9. Rows'
  BY <1>6, <1>7, <1>8 DEF Rows
<1>10. ASSUME Undisturbed', NEW o \in Seed PROVE Followed(o)'
  <2>1. Undisturbed /\ Followed(o) /\ Followed(s)
    BY <1>1, <1>2, <1>10, Disturbs DEF SeedInv
  <2>2. user = run[s].user /\ password = "documented"
    BY <1>1, <1>4, <2>1 DEF Followed, SignedIn, Preflight
  <2>3. There'
    <3>1. ASSUME NEW k \in Fixture PROVE cards'[k] \in {"canonical", "edited"}
      <4>1. cards[k] \in {"absent", "canonical", "edited", "foreign"}
        BY DEF SeedInv, Rows
      <4>2. CASE k \in pending[s]
        BY <1>1, <4>2
      <4>3. CASE k \notin pending[s]
        BY <1>1, <2>1, <4>1, <4>3, CommitCompletes DEF Undisturbed
      <4> QED
        BY <4>2, <4>3
    <3> QED
      BY <1>7, <3>1 DEF There
  <2>4. CASE o = s
    BY <1>1, <1>2, <1>4, <2>2, <2>3, <2>4 DEF Followed
  <2>5. CASE o # s
    BY <1>1, <1>3, <2>1, <2>3, <2>5 DEF Followed, Finished
  <2> QED
    BY <2>4, <2>5
<1> QED
  BY <1>5, <1>9, <1>10

LEMMA SeedCompletes ==
  ASSUME FixtureInv, SessionInv, SeedInv, NEW s \in Seed, SeedStep(s)
  PROVE  Account' /\ Rows' /\ (Undisturbed' => \A o \in Seed : Followed(o)')
<1>1. sessions' \subseteq Token /\ (user' = None => sessions' = {})
  BY SeedLogins DEF SeedInv
<1>2. CASE Quiet(s)
  BY <1>1, <1>2, QuietComplete
<1>3. CASE ~Quiet(s)
  <2>1. SignUp(s) \/ LinkAccount(s) \/ Reconcile(s) \/ Commit(s)
    BY <1>3, FindQuiet, MintQuiet, ReadQuiet, CreateQuiet, EndQuiet DEF SeedStep, FixtureInv
  <2> QED
    BY <2>1, SignUpComplete, LinkComplete, ReconcileComplete, CommitComplete
<1> QED
  BY <1>2, <1>3

\* A reset, failed or not, disturbs.
LEMMA ResetCompletes ==
  ASSUME FixtureInv, SeedInv, NEW r \in Reset, ResetStep(r)
  PROVE  Account' /\ Rows' /\ ~Undisturbed'
<1>1. \A s \in Seed : run'[s] = run[s]
  BY ResetEffect DEF FixtureInv
<1>2. ASSUME UNCHANGED <<user, password, sessions, deck, cards>>
      PROVE  Account' /\ Rows'
  <2>1. Account /\ Rows
    BY DEF SeedInv
  <2>2. Account'
    BY <1>1, <1>2, <2>1 DEF Account
  <2>3. Rows'
    BY <1>2, <2>1 DEF Rows
  <2> QED
    BY <2>2, <2>3
<1>3. ASSUME user' = None, password' = "none", sessions' = {},
             deck' = None, cards' = [k \in Fixture |-> "absent"]
      PROVE  Account' /\ Rows'
  <2>1. \A s \in Seed : s # None /\ (run'[s].pc = "session" => run'[s].verified # None)
    BY <1>1, DocsAssumption DEF SeedInv, Account
  <2>2. Account'
    BY <1>3, <2>1 DEF Account
  <2>3. cards' \in [Fixture -> {"absent", "canonical", "edited", "foreign"}]
    BY <1>3
  <2>4. Rows'
    BY <1>3, <2>3 DEF Rows
  <2> QED
    BY <2>2, <2>4
<1>4. Account' /\ Rows'
  BY <1>2, <1>3 DEF ResetStep, Truncate, Disconnect, logins, fixtures
<1>5. run'[r].pc # "truncate"
  <2>1. r \in DOMAIN run /\ run[r] = Fields(run[r])
    BY RunShape DEF FixtureInv
  <2>2. ASSUME NEW pc \in {"disconnect", "0", "1"}, Go(r, pc) PROVE run'[r].pc # "truncate"
    BY <2>1, <2>2 DEF Go, Fields
  <2>3. CASE run' = [run EXCEPT ![r].failed = TRUE, ![r].pc = "disconnect"]
    BY <2>1, <2>3 DEF Fields
  <2> QED
    BY <2>2, <2>3 DEF ResetStep, Truncate, Disconnect
<1> QED
  BY <1>4, <1>5 DEF Undisturbed

\* An edit keeps the fixtures complete; a deletion, a deck deleted once it is
\* empty and a new password disturb.
LEMMA DevelopCompletes ==
  ASSUME SeedInv, Develop
  PROVE  Account' /\ Rows' /\ (Undisturbed' => \A o \in Seed : Followed(o)')
<1>1. UNCHANGED <<user, sessions, run>> /\ user # None
  BY DEF Develop
<1>2. CASE password = "documented" /\ password' = "changed" /\ UNCHANGED <<deck, cards, deleted>>
  <2>1. Account' /\ Rows' /\ ~Undisturbed'
    BY <1>1, <1>2 DEF SeedInv, Account, Rows, Undisturbed
  <2> QED
    BY <2>1
<1>3. ASSUME NEW k \in Fixture, NEW to \in {"edited", "absent"}, deck = user, cards[k] = "canonical",
             cards' = [cards EXCEPT ![k] = to], UNCHANGED <<password, deck>>,
             deleted' = deleted \cup (IF to = "absent" THEN {k} ELSE {})
      PROVE  Account' /\ Rows' /\ (Undisturbed' => \A o \in Seed : Followed(o)')
  <2>1. Account' /\ Rows'
    BY <1>1, <1>3 DEF SeedInv, Account, Rows
  <2>2. CASE to = "absent"
    BY <1>3, <2>1, <2>2 DEF Undisturbed
  <2>3. CASE to = "edited"
    <3>1. Undisturbed' => Undisturbed
      BY <1>1, <1>3, <2>3 DEF Undisturbed
    <3>2. There => There'
      BY <1>1, <1>3, <2>3 DEF There, SeedInv, Rows
    <3>3. \A o \in Seed : Finished(o)' <=> Finished(o)
      BY <1>1 DEF Finished
    <3>4. ASSUME NEW o \in Seed, Followed(o) PROVE Followed(o)'
      BY <1>1, <1>3, <3>2, <3>3, <3>4 DEF Followed
    <3> QED
      BY <2>1, <3>1, <3>4 DEF SeedInv
  <2> QED
    BY <2>2, <2>3
<1>4. CASE /\ deck = user /\ \A k \in Fixture : cards[k] \in {"absent", "foreign"}
           /\ deck' = None /\ UNCHANGED <<password, cards, deleted>>
  <2>1. Account' /\ Rows'
    BY <1>1, <1>4 DEF SeedInv, Account, Rows
  <2>2. Undisturbed' => Undisturbed
    BY <1>1, <1>4 DEF Undisturbed
  <2>3. ~There
    BY <1>4, DocsAssumption DEF There
  <2>4. ASSUME NEW o \in Seed, Followed(o) PROVE Followed(o)'
    BY <1>1, <1>4, <2>3, <2>4 DEF Followed, Finished
  <2> QED
    BY <2>1, <2>2, <2>4 DEF SeedInv
<1> QED
  BY <1>2, <1>3, <1>4 DEF Develop

LEMMA InitCompletes == Init => SeedInv
<1> SUFFICES ASSUME Init PROVE SeedInv
  OBVIOUS
<1>1. user \in {First, None} /\ First # None /\ First # Other /\ Other # None
  BY DocsAssumption DEF Init
<1>2. \A s \in Seed : /\ run[s].pc = "find" /\ run[s].user = None
  BY DEF Init, NewRun
<1>3. sessions \subseteq Token /\ (user = None => password = "none" /\ sessions = {})
  BY <1>1 DEF Init, Token
<1>4. password \in {"none", "documented", "changed"}
  BY DEF Init
<1>5. Account
  BY <1>2, <1>3, <1>4 DEF Account
<1>6. Rows
  BY DEF Init, Rows
<1>7. \A s \in Seed : Followed(s)
  BY <1>2 DEF Followed, Finished, SignedIn, Preflight
<1>8. faults \in 0..MaxFaults
  BY DocsAssumption DEF Init
<1> QED
  BY <1>5, <1>6, <1>7, <1>8 DEF SeedInv

LEMMA NextCompletes == FixtureInv /\ SessionInv /\ SeedInv /\ [Next]_vars => SeedInv'
<1> SUFFICES ASSUME FixtureInv, SessionInv, SeedInv, [Next]_vars PROVE SeedInv'
  OBVIOUS
<1>1. CASE UNCHANGED vars
  BY <1>1 DEF vars, logins, fixtures, SeedInv, Account, Rows, Undisturbed, Followed, Finished, There
<1>2. CASE Next
  <2>1. faults' \in 0..MaxFaults
    BY <1>2, SeedFaults DEF SeedInv
  <2>2. Account' /\ Rows' /\ (Undisturbed' => \A o \in Seed : Followed(o)')
    BY <1>2, SeedCompletes, ResetCompletes, DevelopCompletes DEF Next
  <2> QED
    BY <2>1, <2>2 DEF SeedInv
<1> QED
  BY <1>1, <1>2

\* As long as only seeds are at work, what a seed has found, verified and
\* completed stays so under every other seed and every failure.
THEOREM SeedInvariant == Spec => []SeedInv
BY InitCompletes, NextCompletes, FixtureInvariant, SessionInvariant, PTL DEF Spec

\* A seed that exits with 0 has left fixtures that are complete and usable,
\* however many seeds raced and failed beside it (developmentData.ts:333).
THEOREM AlwaysComplete == Spec => []SeedComplete
<1>1. SeedInv => SeedComplete
  <2> SUFFICES ASSUME SeedInv, Undisturbed, NEW s \in Seed, run[s].pc = "0",
                      Followed(s)
               PROVE  /\ user = run[s].user /\ password = "documented" /\ deck = user
                      /\ \A k \in Fixture : cards[k] \in {"canonical", "edited"}
    BY DEF SeedInv, SeedComplete
  <2>1. Finished(s)
    BY DEF Finished
  <2> QED
    BY <2>1 DEF Followed, There
<1> QED
  BY <1>1, SeedInvariant, PTL

\* The rows and what the runs hold keep their types, and without the user there
\* is no password, no session and no deck but somebody else's.
THEOREM SeedTypes == Spec => []TypeOK
<1>1. FixtureInv /\ SessionInv /\ SeedInv => TypeOK
  <2> SUFFICES ASSUME FixtureInv, SessionInv, SeedInv PROVE TypeOK
    OBVIOUS
  <2>1. pending \in [Seed -> SUBSET ({"deck"} \cup Fixture)]
    <3>1. \A s \in Seed : pending[s] \in SUBSET ({"deck"} \cup Fixture)
      BY DEF FixtureInv, Transaction
    <3> QED
      BY <3>1 DEF FixtureInv
  <2>2. \A s \in Seed : run[s].minted \subseteq Token
    BY TokenOwn DEF SessionInv, OwnSessions
  <2>3. user \in Owner \cup {None} /\ deck \in Owner \cup {Other, None}
    BY DEF FixtureInv, Users
  <2> QED
    BY <2>1, <2>2, <2>3 DEF TypeOK, SeedInv, Account, Rows
<1> QED
  BY <1>1, FixtureInvariant, SessionInvariant, SeedInvariant, PTL
=============================================================================
