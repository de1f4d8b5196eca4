---------------------------- MODULE SandboxData ----------------------------
(***************************************************************************)
(* scripts/sandbox-data.mjs: migrate, seed and reset.  A reset keeps the   *)
(* tester's rows in memory while it drops the schema, replays the          *)
(* migrations, restores the rows and the runtime role's rights, and goes   *)
(* on as a seed.  The fixtures' ids are computed from the tester's email.  *)
(***************************************************************************)
EXTENDS SyntheticTester

Data(c, pc) == cmd[c].kind \in {"seed", "reset"} /\ cmd[c].pc = pc

Migrate(c) ==
  /\ At(c, "migrate", "migrate")
  /\ \/ DeployOK /\ Go(c, "0")
     \/ DeployFails /\ Go(c, "1")
  /\ UNCHANGED <<accounts, fixtures, tx, file, faults>>

-----------------------------------------------------------------------------
(* reset                                                                   *)

FindTester(c) ==
  /\ Data(c, "find")
  /\ IF tables /\ user # None
     THEN /\ cmd' = [cmd EXCEPT ![c].user = user,
               ![c].pc = IF cmd[c].kind = "reset" THEN "role" ELSE "lock"]
          /\ UNCHANGED <<tx, file>>
     ELSE Throw(c)
  /\ UNCHANGED <<schema, accounts, fixtures, faults>>

\* The runtime role is one that owns nothing, or is refused.
CheckRole(c) ==
  /\ Data(c, "role")
  /\ \/ Go(c, "read") /\ UNCHANGED <<tx, file>>
     \/ Throw(c)
  /\ UNCHANGED <<schema, accounts, fixtures, faults>>

ReadAccount(c) ==
  /\ Data(c, "read")
  /\ IF tables /\ user = cmd[c].user /\ credential # None
     THEN /\ cmd' = [cmd EXCEPT ![c].credential = credential, ![c].pc = "drop"]
          /\ UNCHANGED <<tx, file>>
     ELSE Throw(c)
  /\ UNCHANGED <<schema, accounts, fixtures, faults>>

Drop(c) ==
  /\ Data(c, "drop")
  /\ DropSchema
  /\ Go(c, "replay")
  /\ UNCHANGED <<tx, file, faults>>

Replay(c) ==
  /\ Data(c, "replay")
  /\ \/ DeployOK /\ Go(c, "restoreUser") /\ UNCHANGED <<tx, file>>
     \/ DeployFails /\ Throw(c)
  /\ UNCHANGED <<accounts, fixtures, faults>>

\* Faulty variant: without BEGIN, each row is committed by itself.
RestoreUserAlone(c) ==
  /\ Data(c, "restoreUser") /\ tables /\ user = None
  /\ user' = cmd[c].user
  /\ Go(c, "restoreAccount")
  /\ UNCHANGED <<schema, credential, sessions, fixtures, tx, file, faults>>

RestoreUser(c) ==
  /\ Data(c, "restoreUser") /\ Free(c, {"user"})
  /\ IF tables /\ user = None
     THEN Go(c, "restoreAccount") /\ Hold(c, {"user"}) /\ UNCHANGED file
     ELSE Throw(c)
  /\ UNCHANGED <<schema, accounts, fixtures, faults>>

RestoreAccount(c) ==
  /\ Data(c, "restoreAccount")
  /\ Go(c, "commitRestore") /\ Hold(c, {"account"})
  /\ UNCHANGED <<schema, accounts, fixtures, file, faults>>

CommitRestore(c) ==
  /\ Data(c, "commitRestore")
  /\ user' = cmd[c].user /\ credential' = cmd[c].credential
  /\ Go(c, "usage") /\ Release(c)
  /\ UNCHANGED <<schema, sessions, fixtures, file, faults>>

\* Faulty variant: USAGE is left to the defaults of the new schema.
GrantNoUsage(c) ==
  /\ Data(c, "usage")
  /\ Go(c, "grant")
  /\ UNCHANGED <<schema, accounts, fixtures, tx, file, faults>>

GrantUsage(c) ==
  /\ Data(c, "usage")
  /\ grants' = grants \cup {"usage"}
  /\ Go(c, "grant")
  /\ UNCHANGED <<tables, history, accounts, fixtures, tx, file, faults>>

\* Faulty variant: all tables of the schema, and so the migration history.
GrantAllTables(c) ==
  /\ Data(c, "grant")
  /\ IF tables THEN Go(c, "defaults") /\ UNCHANGED <<tx, file>> ELSE Throw(c)
  /\ grants' = IF tables THEN grants \cup {"tables", "history"} ELSE grants
  /\ UNCHANGED <<tables, history, accounts, fixtures, faults>>

GrantTables(c) ==
  /\ Data(c, "grant")
  /\ IF tables THEN Go(c, "defaults") /\ UNCHANGED <<tx, file>> ELSE Throw(c)
  /\ grants' = IF tables THEN grants \cup {"tables"} ELSE grants
  /\ UNCHANGED <<tables, history, accounts, fixtures, faults>>

AlterDefaults(c) ==
  /\ Data(c, "defaults")
  /\ grants' = grants \cup {"defaults"}
  /\ Go(c, "lock")
  /\ UNCHANGED <<tables, history, accounts, fixtures, tx, file, faults>>

-----------------------------------------------------------------------------
(* The fixtures, in one transaction                                        *)

Present == IF deck = None THEN {} ELSE {"deck"}
PresentCards == {k \in Fixture : cards[k] # "absent"}
ForeignUnasked == FALSE  \* faulty variant: the conflict clause takes care
Foreign == \E k \in Fixture : cards[k] = "foreign"

\* SELECT ... FOR UPDATE: rows that exist are locked, absent ones are not.
LockFixtures(c) ==
  /\ Data(c, "lock") /\ Free(c, Present \cup PresentCards)
  /\ IF tables /\ deck \in {None, cmd[c].user} /\ ~Foreign
     THEN /\ Go(c, "deck") /\ Hold(c, Present \cup PresentCards)
          /\ UNCHANGED file
     ELSE Throw(c)
  /\ UNCHANGED <<schema, accounts, fixtures, faults>>

\* INSERT ... ON CONFLICT (id) DO NOTHING waits for another insert of the id.
\* The foreign key finds no user after a reset for another tester.
InsertDeck(c) ==
  /\ Data(c, "deck") /\ Free(c, {"deck"})
  /\ IF deck # None \/ user = cmd[c].user
     THEN /\ Go(c, "reconcile") /\ UNCHANGED file
          /\ Hold(c, IF deck = None THEN {"deck"} ELSE {})
     ELSE Throw(c)
  /\ UNCHANGED <<schema, accounts, fixtures, faults>>

\* The row this transaction inserted, or the one it left alone: it may be
\* another's, or deleted since, and is locked now.
Reconcile(c) ==
  /\ Data(c, "reconcile") /\ Free(c, {"deck"})
  /\ IF "deck" \in tx[c] \/ deck = cmd[c].user
     THEN Go(c, "cards") /\ Hold(c, {"deck"}) /\ UNCHANGED file
     ELSE Throw(c)
  /\ UNCHANGED <<schema, accounts, fixtures, faults>>

\* Cards that are there are neither changed nor locked.
InsertCards(c) ==
  /\ Data(c, "cards") /\ Free(c, Fixture)
  /\ Go(c, "commit") /\ Hold(c, {k \in Fixture : cards[k] = "absent"})
  /\ UNCHANGED <<schema, accounts, fixtures, file, faults>>

\* Faulty variant: ON CONFLICT DO UPDATE.
CommitFixturesOver(c) ==
  /\ Data(c, "commit")
  /\ deck' = cmd[c].user
  /\ cards' = [k \in Fixture |-> "canonical"]
  /\ Go(c, "0") /\ Release(c)
  /\ UNCHANGED <<schema, accounts, file, faults>>

\* The rows it inserted are published.  A card that its INSERT found and did not
\* lock may be gone by now, and stays so.
CommitFixtures(c) ==
  /\ Data(c, "commit")
  /\ deck' = IF deck = None THEN cmd[c].user ELSE deck
  /\ cards' = [k \in Fixture |->
       IF k \in tx[c] /\ cards[k] = "absent" THEN "canonical" ELSE cards[k]]
  /\ \/ Go(c, "0") /\ Release(c) /\ UNCHANGED <<file, faults>>
     \/ faults < MaxFaults /\ faults' = faults + 1 /\ Throw(c)
  /\ UNCHANGED <<schema, accounts>>

\* The tester, through the API: edits a card, or deletes what it may.
TesterEdits ==
  /\ RuntimeOK /\ credential # None /\ deck = user
  /\ \/ \E k \in Fixture :
          /\ cards[k] \in {"canonical", "edited"} /\ \A c \in Command : k \notin tx[c]
          /\ \E to \in {"edited", "absent"} \ {cards[k]} :
               cards' = [cards EXCEPT ![k] = to]
          /\ UNCHANGED deck
     \/ /\ \A k \in Fixture : cards[k] = "absent"
        /\ \A c \in Command : "deck" \notin tx[c]
        /\ deck' = None /\ UNCHANGED cards
  /\ UNCHANGED <<schema, accounts, tx, operator>>

DataStep(c) ==
  \/ Migrate(c) \/ FindTester(c) \/ CheckRole(c) \/ ReadAccount(c)
  \/ Drop(c) \/ Replay(c)
  \/ RestoreUser(c) \/ RestoreAccount(c) \/ CommitRestore(c)
  \/ GrantUsage(c) \/ GrantTables(c) \/ AlterDefaults(c)
  \/ LockFixtures(c) \/ InsertDeck(c) \/ Reconcile(c) \/ InsertCards(c)
  \/ CommitFixtures(c)
=============================================================================
