-------------------------- MODULE SyntheticTester --------------------------
(***************************************************************************)
(* src/scripts/manageSyntheticTester.ts: one operator command provisions a *)
(* tester and leaves its password in a private file, or revokes it.  Two   *)
(* commands may run at once and name the same email and the same file.     *)
(***************************************************************************)
EXTENDS SandboxDb

CONSTANTS
  Kinds,        \* the commands operators give
  MaxFaults     \* bound: statements that fail, processes that are killed

ASSUME OperatorAssumption == MaxFaults \in Nat

VARIABLES
  cmd,          \* of each command: its kind, the awaited call, the rows read
  file,         \* the delivery file: the command that wrote it
  faults

operator == <<cmd, file, faults>>

Idle == [kind |-> None, pc |-> "idle", user |-> None, credential |-> None,
         created |-> FALSE]

Ended == {"0", "1", "killed"}

\* Whether command c is of kind k and has come to the call pc.
At(c, k, pc) == cmd[c].kind = k /\ cmd[c].pc = pc

Go(c, pc) == cmd' = [cmd EXCEPT ![c].pc = pc]

\* Faulty variant: the file is taken for this run's before it is opened.
UnlinkAny(c) == file' = IF cmd[c].kind = "provision" THEN None ELSE file

\* catch: the file this run created is removed.
Unlink(c) == file' = IF cmd[c].created THEN None ELSE file

\* The rejection of an awaited call; end() rolls the transaction back.
Throw(c) ==
  /\ Go(c, "1")
  /\ Unlink(c)
  /\ tx' = [tx EXCEPT ![c] = {}]

Hold(c, rows) == tx' = [tx EXCEPT ![c] = @ \cup {"begun"} \cup rows]
Release(c) == tx' = [tx EXCEPT ![c] = {}]

-----------------------------------------------------------------------------
(* provision                                                               *)

FindForProvision(c) ==
  /\ At(c, "provision", "find")
  /\ IF tables /\ user = None THEN Go(c, "open") /\ UNCHANGED <<tx, file>>
     ELSE Throw(c)
  /\ UNCHANGED <<schema, accounts, fixtures, faults>>

\* open(file, "wx"): an existing file is refused.
OpenDelivery(c) ==
  /\ At(c, "provision", "open")
  /\ IF file = None
     THEN /\ file' = c
          /\ cmd' = [cmd EXCEPT ![c].pc = "user", ![c].created = TRUE]
          /\ UNCHANGED tx
     ELSE Throw(c)
  /\ UNCHANGED <<schema, accounts, fixtures, faults>>

\* Waits for a transaction that inserts the same email, and fails after it.
InsertUser(c) ==
  /\ At(c, "provision", "user") /\ Free(c, {"user"})
  /\ IF tables /\ user = None
     THEN Go(c, "account") /\ Hold(c, {"user"}) /\ UNCHANGED file
     ELSE Throw(c)
  /\ UNCHANGED <<schema, accounts, fixtures, faults>>

InsertAccount(c) ==
  /\ At(c, "provision", "account")
  /\ Go(c, "commit") /\ Hold(c, {"account"})
  /\ UNCHANGED <<schema, accounts, fixtures, file, faults>>

\* The acknowledgement of COMMIT may be lost: the catch block runs then.
CommitProvision(c) ==
  /\ At(c, "provision", "commit")
  /\ user' = c /\ credential' = c
  /\ \/ /\ cmd' = [cmd EXCEPT ![c].pc = "0", ![c].created = FALSE]
        /\ Release(c)
        /\ UNCHANGED <<file, faults>>
     \/ /\ faults < MaxFaults /\ faults' = faults + 1
        /\ Throw(c)
  /\ UNCHANGED <<schema, sessions, fixtures>>

-----------------------------------------------------------------------------
(* revoke                                                                  *)

FindForRevoke(c) ==
  /\ At(c, "revoke", "find")
  /\ IF ~tables THEN Throw(c)
     ELSE /\ cmd' = [cmd EXCEPT ![c].user = user,
                                ![c].pc = IF user = None THEN "0" ELSE "account"]
          /\ UNCHANGED <<tx, file>>
  /\ UNCHANGED <<schema, accounts, fixtures, faults>>

DeleteAccounts(c) ==
  /\ At(c, "revoke", "account")
  /\ LET found == user = cmd[c].user /\ credential # None IN
     /\ found => Free(c, {"account"})
     /\ IF tables
        THEN /\ Go(c, "sessions") /\ UNCHANGED file
             /\ Hold(c, IF found THEN {"account"} ELSE {})
        ELSE Throw(c)
  /\ UNCHANGED <<schema, accounts, fixtures, faults>>

DeleteSessions(c) ==
  /\ At(c, "revoke", "sessions")
  /\ LET rows == Tokens(SessionsOf(cmd[c].user)) IN
     Free(c, rows) /\ Go(c, "commit") /\ Hold(c, rows)
  /\ UNCHANGED <<schema, accounts, fixtures, file, faults>>

CommitRevoke(c) ==
  /\ At(c, "revoke", "commit")
  /\ credential' = IF "account" \in tx[c] THEN None ELSE credential
  /\ sessions' = {s \in sessions : s.token \notin tx[c]}
  /\ \/ Go(c, "0") /\ Release(c) /\ UNCHANGED <<file, faults>>
     \/ faults < MaxFaults /\ faults' = faults + 1 /\ Throw(c)
  /\ UNCHANGED <<schema, user, fixtures>>

-----------------------------------------------------------------------------
(* Of every command                                                        *)

Running(c) == cmd[c].pc \notin Ended \cup {"idle"}

\* A call rejects, or the connection breaks.
Fail(c) ==
  /\ Running(c) /\ faults < MaxFaults
  /\ faults' = faults + 1
  /\ Throw(c)
  /\ UNCHANGED <<schema, accounts, fixtures>>

\* The process is killed: the file stays, the server rolls back.
Kill(c) ==
  /\ Running(c) /\ faults < MaxFaults
  /\ faults' = faults + 1
  /\ Go(c, "killed") /\ Release(c)
  /\ UNCHANGED <<schema, accounts, fixtures, file>>

\* main's checks of target, email and confirmations have passed.
Start(c) ==
  /\ cmd[c].pc = "idle"
  /\ \E k \in Kinds : cmd' = [cmd EXCEPT ![c].kind = k,
                                ![c].pc = IF k = "migrate" THEN "migrate" ELSE "find"]
  /\ UNCHANGED <<database, file, faults>>

TesterStep(c) ==
  \/ FindForProvision(c) \/ OpenDelivery(c)
  \/ InsertUser(c) \/ InsertAccount(c) \/ CommitProvision(c)
  \/ FindForRevoke(c) \/ DeleteAccounts(c) \/ DeleteSessions(c)
  \/ CommitRevoke(c)
  \/ Start(c) \/ Fail(c) \/ Kill(c)
=============================================================================
