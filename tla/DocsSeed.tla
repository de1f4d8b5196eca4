------------------------------ MODULE DocsSeed ------------------------------
(***************************************************************************)
(* src/lib/developmentData.ts with its two command lines: seeds of the     *)
(* documentation fixtures, await by await, beside a reset and a developer  *)
(* who works with the same local database.  Sign-up and sign-in are Better *)
(* Auth's; a session token is named by the run and the call that minted it.*)
(***************************************************************************)
EXTENDS FiniteSets, Integers

CONSTANTS
  Seed,         \* runs of docs:seed
  Reset,        \* runs of db:reset:dev
  Fixture,      \* the canonical cards
  First, Other, \* the fixture user there may be at the start; somebody else
  None,
  MaxFaults     \* bound: calls that reject and processes that are killed

ASSUME DocsAssumption ==
  /\ First # Other /\ First # None /\ Other # None
  /\ {First, Other, None} \cap (Seed \cup Reset) = {} /\ Seed \cap Reset = {}
  /\ "deck" \notin Fixture /\ Fixture # {} /\ MaxFaults \in Nat

VARIABLES
  user,         \* the fixture user's row, by the run that created it
  password,     \* of its account: "none", "documented", "changed"
  sessions,     \* tokens of the rows of "session"
  deck, cards,  \* the canonical deck's userId; each canonical card
  pending,      \* of each seed: the rows its transaction has inserted
  run,          \* of each seed and reset: the awaited call and its locals
  faults,
  deleted       \* history: the cards a developer ever deleted

fixtures == <<deck, cards, deleted>>
logins == <<user, password, sessions>>
vars == <<logins, fixtures, pending, run, faults>>

Owner == Seed \cup {First}
Token == (Seed \X {"sign-up", "sign-in"}) \cup {<<First, "browser">>}

NewRun(pc) ==
  [pc |-> pc, user |-> None, verified |-> None, deck |-> None, unread |-> Fixture, missing |-> {},
   minted |-> {}, failed |-> FALSE, cleanupFailed |-> FALSE]

\* A database that was never seeded, was seeded and is in use, or whose
\* canonical rows are somebody else's.
Init ==
  /\ user \in {First, None}
  /\ password \in IF user = None THEN {"none"}
                  ELSE {"none", "documented", "changed"}
  /\ sessions = {<<u, "browser">> : u \in {user} \ {None}}
  /\ deck \in {user, Other, None}
  /\ cards \in [Fixture -> IF deck = None THEN {"absent", "foreign"}
                           ELSE {"absent", "edited"}]
  /\ pending = [s \in Seed |-> {}]
  /\ run = [r \in Seed \cup Reset |->
              NewRun(IF r \in Seed THEN "find" ELSE "truncate")]
  /\ faults = 0 /\ deleted = {}

Free(s, rows) == \A o \in Seed \ {s} : pending[o] \cap rows = {}

At(s, pc) == run[s].pc = pc
Go(s, pc) == run' = [run EXCEPT ![s].pc = pc]
Have(s, u, pc) == run' = [run EXCEPT ![s].user = u, ![s].pc = pc]

\* seedError is kept, and cleanup runs for the tokens there are.
CleanupOrEnd(s) == IF run[s].minted = {} THEN "disconnect" ELSE "cleanup"

\* Faulty variant: the error leaves seedDocsData at once.
ThrowThrough(s) ==
  /\ run' = [run EXCEPT ![s].failed = TRUE, ![s].pc = "disconnect"]
  /\ pending' = [pending EXCEPT ![s] = {}]

Throw(s) ==
  /\ run' = [run EXCEPT ![s].failed = TRUE, ![s].pc = CleanupOrEnd(s)]
  /\ pending' = [pending EXCEPT ![s] = {}]

-----------------------------------------------------------------------------
(* The fixture user                                                        *)

FindUser(s) ==
  /\ At(s, "find")
  /\ Have(s, user, IF user = None THEN "sign-up" ELSE "sign-in")
  /\ UNCHANGED <<logins, fixtures, pending, faults>>

\* signUpEmail inserts the user, its account and a session one by one.
SignUp(s) ==
  /\ At(s, "sign-up")
  /\ IF user = None
     THEN user' = s /\ Go(s, "account") /\ UNCHANGED pending
     ELSE Throw(s) /\ UNCHANGED user
  /\ UNCHANGED <<password, sessions, fixtures, faults>>

LinkAccount(s) ==
  /\ At(s, "account")
  /\ IF user = s
     THEN password' = "documented" /\ Go(s, "auto") /\ UNCHANGED pending
     ELSE Throw(s) /\ UNCHANGED password
  /\ UNCHANGED <<user, sessions, fixtures, faults>>

\* The session is returned, or persisted by a call that fails after it: its
\* token is then unknown to the run.
AutoSignIn(s) ==
  /\ At(s, "auto")
  /\ IF user # s THEN Throw(s) /\ UNCHANGED <<sessions, faults>>
     ELSE /\ sessions' = sessions \cup {<<s, "sign-up">>}
          /\ \/ /\ run' = [run EXCEPT ![s].minted = {<<s, "sign-up">>},
                                      ![s].pc = "find again"]
                /\ UNCHANGED <<pending, faults>>
             \/ /\ faults < MaxFaults /\ faults' = faults + 1
                /\ Throw(s)
  /\ UNCHANGED <<user, password, fixtures>>

FindAgain(s) ==
  /\ At(s, "find again")
  /\ IF user = None THEN Throw(s)
     ELSE Have(s, user, "sign-in") /\ UNCHANGED pending
  /\ UNCHANGED <<logins, fixtures, faults>>

\* A password that no longer is the documented one is drift, and is left.
VerifyPassword(s) ==
  /\ At(s, "sign-in")
  /\ IF password = "documented"
     THEN /\ run' = [run EXCEPT ![s].verified = user, ![s].pc = "session"]
          /\ UNCHANGED pending
     ELSE Throw(s)
  /\ UNCHANGED <<logins, fixtures, faults>>

\* The session is of the user whose password was verified; a reset since then
\* makes the insert fail.
MintSession(s) ==
  /\ At(s, "session")
  /\ IF user # run[s].verified THEN Throw(s) /\ UNCHANGED sessions
     ELSE /\ sessions' = sessions \cup {<<s, "sign-in">>}
          /\ run' = [run EXCEPT ![s].minted = @ \cup {<<s, "sign-in">>},
                                ![s].pc = "deck"]
          /\ UNCHANGED pending
  /\ UNCHANGED <<user, password, fixtures, faults>>

-----------------------------------------------------------------------------
(* The preflight and the transaction                                       *)

ReadDeck(s) ==
  /\ At(s, "deck")
  /\ IF deck \in {None, run[s].user}
     THEN /\ run' = [run EXCEPT ![s].deck = deck, ![s].pc = "cards"]
          /\ UNCHANGED pending
     ELSE Throw(s)
  /\ UNCHANGED <<logins, fixtures, faults>>

\* Faulty variant: a card of another deck counts as there.
ReadCardAnywhere(s) ==
  /\ At(s, "cards")
  /\ \E k \in run[s].unread :
       run' = [run EXCEPT ![s].unread = @ \ {k},
                 ![s].missing = IF cards[k] = "absent" THEN @ \cup {k} ELSE @]
  /\ UNCHANGED <<logins, fixtures, pending, faults>>

ReadCard(s) ==
  /\ At(s, "cards")
  /\ \E k \in run[s].unread :
       IF cards[k] = "foreign" THEN Throw(s)
       ELSE /\ run' = [run EXCEPT ![s].unread = @ \ {k},
                 ![s].missing = IF cards[k] = "absent" THEN @ \cup {k} ELSE @]
            /\ UNCHANGED pending
  /\ UNCHANGED <<logins, fixtures, faults>>

Reconcile(s) ==
  /\ At(s, "cards") /\ run[s].unread = {}
  /\ Go(s, IF run[s].deck = None THEN "create deck"
           ELSE IF run[s].missing # {} THEN "create cards" ELSE "cleanup")
  /\ UNCHANGED <<logins, fixtures, pending, faults>>

\* Faulty variants: the user's row is not looked at, and each create is
\* committed on its own.
CreateDeckUnowned(s) ==
  /\ At(s, "create deck") /\ Free(s, {"deck"})
  /\ IF deck = None
     THEN /\ pending' = [pending EXCEPT ![s] = {"deck"}]
          /\ Go(s, "create cards")
     ELSE Throw(s)
  /\ UNCHANGED <<logins, fixtures, faults>>

CreateDeckNow(s) ==
  /\ At(s, "create deck") /\ Free(s, {"deck"})
  /\ IF deck = None /\ user = run[s].user
     THEN deck' = user /\ Go(s, "create cards") /\ UNCHANGED pending
     ELSE Throw(s) /\ UNCHANGED deck
  /\ UNCHANGED <<logins, cards, deleted, faults>>

\* P2002 when the deck is there by now, P2003 when the user is gone.
CreateDeck(s) ==
  /\ At(s, "create deck") /\ Free(s, {"deck"})
  /\ IF deck = None /\ user = run[s].user
     THEN /\ pending' = [pending EXCEPT ![s] = {"deck"}]
          /\ Go(s, "create cards")
     ELSE Throw(s)
  /\ UNCHANGED <<logins, fixtures, faults>>

CreateCards(s) ==
  /\ At(s, "create cards") /\ Free(s, run[s].missing)
  /\ IF /\ deck # None \/ "deck" \in pending[s]
        /\ \A k \in run[s].missing : cards[k] = "absent"
     THEN /\ pending' = [pending EXCEPT ![s] = @ \cup run[s].missing]
          /\ Go(s, "commit")
     ELSE Throw(s)
  /\ UNCHANGED <<logins, fixtures, faults>>

Commit(s) ==
  /\ At(s, "commit")
  /\ deck' = IF "deck" \in pending[s] THEN run[s].user ELSE deck
  /\ cards' = [k \in Fixture |-> IF k \in pending[s] THEN "canonical" ELSE cards[k]]
  /\ pending' = [pending EXCEPT ![s] = {}]
  /\ Go(s, "cleanup")
  /\ UNCHANGED <<logins, deleted, faults>>

-----------------------------------------------------------------------------
(* The end of a run                                                        *)

\* Faulty variant: every session of the fixture user.
CleanupAll(s) ==
  /\ At(s, "cleanup")
  /\ sessions' = {}
  /\ Go(s, "disconnect")
  /\ UNCHANGED <<user, password, fixtures, pending, faults>>

Cleanup(s) ==
  /\ At(s, "cleanup")
  /\ \/ sessions' = sessions \ run[s].minted
        /\ Go(s, "disconnect") /\ UNCHANGED faults
     \/ faults < MaxFaults /\ faults' = faults + 1
        /\ run' = [run EXCEPT ![s].failed = TRUE, ![s].cleanupFailed = TRUE,
                              ![s].pc = "disconnect"]
        /\ UNCHANGED sessions
  /\ UNCHANGED <<user, password, fixtures, pending>>

Ended == {"0", "1", "killed"}

Disconnect(s) ==
  /\ At(s, "disconnect")
  /\ \/ Go(s, IF run[s].failed THEN "1" ELSE "0") /\ UNCHANGED faults
     \/ faults < MaxFaults /\ faults' = faults + 1 /\ Go(s, "1")
  /\ UNCHANGED <<logins, fixtures, pending>>

\* An awaited call of the try block rejects.
Fail(s) ==
  /\ run[s].pc \notin Ended \cup {"cleanup", "disconnect"}
  /\ faults < MaxFaults /\ faults' = faults + 1
  /\ Throw(s)
  /\ UNCHANGED <<logins, fixtures>>

Kill(s) ==
  /\ run[s].pc \notin Ended
  /\ faults < MaxFaults /\ faults' = faults + 1
  /\ Go(s, "killed") /\ pending' = [pending EXCEPT ![s] = {}]
  /\ UNCHANGED <<logins, fixtures>>

SeedStep(s) ==
  \/ FindUser(s) \/ SignUp(s) \/ LinkAccount(s) \/ AutoSignIn(s)
  \/ FindAgain(s) \/ VerifyPassword(s) \/ MintSession(s)
  \/ ReadDeck(s) \/ ReadCard(s) \/ Reconcile(s)
  \/ CreateDeck(s) \/ CreateCards(s) \/ Commit(s)
  \/ Cleanup(s) \/ Disconnect(s) \/ Fail(s) \/ Kill(s)

\* TRUNCATE of all ten tables waits for open transactions.
Truncate(r) ==
  /\ At(r, "truncate")
  /\ \/ /\ \A s \in Seed : pending[s] = {}
        /\ user' = None /\ password' = "none" /\ sessions' = {}
        /\ deck' = None /\ cards' = [k \in Fixture |-> "absent"]
        /\ Go(r, "disconnect") /\ UNCHANGED faults
     \/ faults < MaxFaults /\ faults' = faults + 1
        /\ run' = [run EXCEPT ![r].failed = TRUE, ![r].pc = "disconnect"]
        /\ UNCHANGED <<logins, deck, cards>>
  /\ UNCHANGED <<deleted, pending>>

ResetStep(r) == Truncate(r) \/ Disconnect(r)

-----------------------------------------------------------------------------
\* The developer changes the password, edits or deletes a card, deletes the
\* deck once it is empty.
Develop ==
  /\ user # None
  /\ \/ /\ password = "documented" /\ password' = "changed"
        /\ UNCHANGED <<deck, cards, deleted>>
     \/ /\ deck = user
        /\ \E k \in Fixture, to \in {"edited", "absent"} :
             /\ cards[k] = "canonical"
             /\ cards' = [cards EXCEPT ![k] = to]
             /\ deleted' = deleted \cup (IF to = "absent" THEN {k} ELSE {})
        /\ UNCHANGED <<password, deck>>
     \/ /\ deck = user /\ \A k \in Fixture : cards[k] \in {"absent", "foreign"}
        /\ \A s \in Seed : pending[s] = {}
        /\ deck' = None
        /\ UNCHANGED <<password, cards, deleted>>
  /\ UNCHANGED <<user, sessions, pending, run, faults>>

Next ==
  \/ \E s \in Seed : SeedStep(s)
  \/ \E r \in Reset : ResetStep(r)
  \/ Develop

Spec == Init /\ [][Next]_vars

-----------------------------------------------------------------------------

TypeOK ==
  /\ user \in Owner \cup {None}
  /\ password \in {"none", "documented", "changed"}
  /\ sessions \subseteq Token
  /\ deck \in Owner \cup {Other, None}
  /\ cards \in [Fixture -> {"absent", "canonical", "edited", "foreign"}]
  /\ pending \in [Seed -> SUBSET ({"deck"} \cup Fixture)]
  /\ \A s \in Seed : run[s].minted \subseteq Token
  /\ faults \in 0..MaxFaults
  /\ user = None => password = "none" /\ sessions = {} /\ deck \in {Other, None}

\* A seed that ends on its own leaves none of the sessions it was told of,
\* whatever failed in it, unless the cleanup itself did.
TokensRemoved ==
  \A s \in Seed :
    run[s].pc \in {"0", "1"} /\ ~run[s].cleanupFailed =>
      run[s].minted \cap sessions = {}

\* Nobody is signed out by a seed: but for a reset, a session disappears by
\* the cleanup of the run that minted it.
OthersSessions ==
  [][\A t \in sessions \ sessions' :
       \/ user' = None
       \/ t[1] \in Seed /\ run[t[1]].pc = "cleanup" /\ t \in run[t[1]].minted]_vars

\* The fixtures change as FixturePromise says: every failure, a conflict with
\* another seed and a reset in between included, leaves them as they were.
Promise == INSTANCE FixturePromise
AtomicSeed == Promise!Spec

\* Nothing but seeds has been at work: no reset, no deletion, no new password.
Undisturbed ==
  /\ deleted = {} /\ password # "changed"
  /\ \A r \in Reset : run[r].pc = "truncate"

\* A seed that exits with 0 has left the fixtures complete and usable: the
\* user signs in with the documented password and owns the deck, and every
\* card is there.
SeedComplete ==
  Undisturbed =>
    \A s \in Seed : run[s].pc = "0" =>
      /\ user = run[s].user /\ password = "documented" /\ deck = user
      /\ \A k \in Fixture : cards[k] \in {"canonical", "edited"}
=============================================================================
