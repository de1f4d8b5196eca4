----------------------------- MODULE SandboxDb -----------------------------
(***************************************************************************)
(* The sandbox's Postgres as the API's sessions, the operator commands and *)
(* a starting candidate share it: one synthetic tester, its fixtures, the  *)
(* rights of the runtime role.  Transactions run READ COMMITTED, so a      *)
(* statement sees what is committed when it runs; `tx` holds the rows an   *)
(* open transaction has written or locked, and COMMIT applies them.        *)
(***************************************************************************)
EXTENDS Integers, Sequences, FiniteSets

CONSTANTS
  Command,      \* runs of an operator command; a tester is named by the run
                \* that provisioned it, and so is its password
  Request,      \* requests; a session token is named by its sign-in
  Fixture,      \* the canonical cards
  First,        \* the tester, and the session, there may be at the start
  Other,        \* somebody else, who may own a row with a canonical id
  None

ASSUME SandboxAssumption ==
  /\ First \notin Command \cup Request
  /\ {Other, None} \cap (Command \cup Request \cup {First}) = {}
  /\ Other # None /\ "deck" \notin Fixture

Tester == Command \cup {First}
Token == Request \cup {First}

VARIABLES
  tables,       \* the application tables exist
  history,      \* _prisma_migrations: "none", "behind", "failed", "current"
  user,         \* the row of the tester in "user"
  credential,   \* its credential row in "account": whose password it has
  sessions,     \* the rows of "session": token and user
  grants,       \* what the runtime role may: a subset of Right
  deck,         \* userId of the canonical deck
  cards,        \* of each canonical card: "absent", "canonical", "edited",
                \* or "foreign", when it is in another deck
  tx            \* of each command: the rows its transaction holds

accounts == <<user, credential, sessions>>
fixtures == <<deck, cards>>
schema == <<tables, history, grants>>
database == <<schema, accounts, fixtures, tx>>

Right == {"usage", "tables", "defaults", "history"}
Session == [token : Token, user : Tester]
Row == {"begun", "user", "account", "deck"} \cup Fixture \cup Token

DbTypeOK ==
  /\ tables \in BOOLEAN
  /\ history \in {"none", "behind", "failed", "current"}
  /\ user \in Tester \cup {None}
  /\ credential \in Tester \cup {None}
  /\ sessions \subseteq Session
  /\ grants \subseteq Right
  /\ deck \in Tester \cup {Other, None}
  /\ cards \in [Fixture -> {"absent", "canonical", "edited", "foreign"}]
  /\ tx \in [Command -> SUBSET Row]

\* No other open transaction holds one of these rows.
Free(c, rows) == \A o \in Command \ {c} : tx[o] \cap rows = {}

\* A statement of the API, whose role is not the owner, can run.
RuntimeOK == tables /\ {"usage", "tables"} \subseteq grants

SessionsOf(u) == {s \in sessions : s.user = u}
Tokens(rows) == {s.token : s \in rows}

-----------------------------------------------------------------------------
(* prisma migrate deploy, external; an advisory lock lets one run at a time. *)

\* Tables the owner creates take the rights of ALTER DEFAULT PRIVILEGES.
DeployOK ==
  /\ history # "failed"
  /\ tables' = TRUE
  /\ history' = "current"
  /\ grants' = IF history = "none" /\ "defaults" \in grants
               THEN grants \cup {"tables", "history"} ELSE grants

\* A migration that breaks is recorded, and every later run answers P3009; a
\* run that finds no database or engine records nothing.
DeployFails ==
  /\ history' \in {history} \cup (IF history = "current" THEN {} ELSE {"failed"})
  /\ UNCHANGED <<tables, grants>>

\* Faulty variant: the table of sessions survives.
DropButSessions ==
  /\ \A o \in Command : tx[o] = {}
  /\ tables' = FALSE /\ history' = "none" /\ grants' = {}
  /\ user' = None /\ credential' = None /\ UNCHANGED sessions
  /\ deck' = None /\ cards' = [k \in Fixture |-> "absent"]

\* DROP SCHEMA public CASCADE; CREATE SCHEMA public.  It waits for every open
\* transaction, and takes the rights in the schema with it.
DropSchema ==
  /\ \A o \in Command : tx[o] = {}
  /\ tables' = FALSE /\ history' = "none" /\ grants' = {}
  /\ user' = None /\ credential' = None /\ sessions' = {}
  /\ deck' = None /\ cards' = [k \in Fixture |-> "absent"]
=============================================================================
