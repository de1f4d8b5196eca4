--------------------------- MODULE SandboxProofs ---------------------------
(***************************************************************************)
(* The sandbox for any number of operator commands, requests and releases: *)
(* a revoked tester is refused, a delivery file stays with the run that    *)
(* delivered it, the tester is there with its account or not at all, a     *)
(* seed or reset that succeeds leaves complete data, lost rights are       *)
(* reported, no release serves an unmigrated schema, and a sign-out ends   *)
(* its session.                                                            *)
(***************************************************************************)
EXTENDS Sandbox, SequenceTheorems, TLAPS

CommandFields(e) ==
  [kind |-> e.kind, pc |-> e.pc, user |-> e.user, credential |-> e.credential,
   created |-> e.created]

RequestFields(e) ==
  [kind |-> e.kind, pc |-> e.pc, cookie |-> e.cookie, ring |-> e.ring, user |-> e.user,
   revoked |-> e.revoked, answer |-> e.answer]

SmokeFields(e) ==
  [pc |-> e.pc, expected |-> e.expected, cookie |-> e.cookie, failed |-> e.failed,
   cleanupFailed |-> e.cleanupFailed]

CommandShape ==
  /\ cmd = [c \in Command |-> CommandFields(cmd[c])]
  /\ tx = [c \in Command |-> tx[c]]

RequestShape == req = [r \in Request |-> RequestFields(req[r])]

-----------------------------------------------------------------------------
(* The operators                                                           *)

\* The transaction of c has inserted the tester.
Inserting(c) ==
  \/ cmd[c].kind = "provision" /\ cmd[c].pc \in {"account", "commit"}
  \/ cmd[c].pc \in {"restoreAccount", "commitRestore"}

\* Two of them would violate the unique email, and one is not visible yet.
OneInserts ==
  /\ \A c \in Command : Inserting(c) => "user" \in tx[c] /\ user = None
  /\ \A c, d \in Command : Inserting(c) /\ Inserting(d) => c = d

\* The file is removed by the run that knows it has created it.
FileOwned ==
  file # None =>
    /\ file \in Command /\ cmd[file].kind = "provision" /\ cmd[file].pc \notin {"idle", "1"}
    /\ cmd[file].created \/ cmd[file].pc \in {"0", "killed"}

Rebuilding == {"restoreUser", "restoreAccount", "commitRestore", "usage", "grant", "defaults"}
Resetting == Rebuilding \cup {"role", "read", "drop", "replay"}

\* Default privileges are only ever there together with the table of history.
HistoryKept ==
  /\ "history" \notin grants
  /\ history = "none" => "defaults" \notin grants
  /\ \A c \in Command : /\ cmd[c].pc \in Resetting => cmd[c].kind = "reset"
                        /\ cmd[c].pc \in Rebuilding => history # "none"

OperatorInv == CommandShape /\ OneInserts /\ FileOwned /\ HistoryKept

-----------------------------------------------------------------------------
(* The sessions                                                            *)

Owned == \A s \in sessions : s.user = user /\ s.user # None

\* No sign-in will mint this token any more.
Spent(token) == token \notin Request \/ req[token].pc = "done"

\* A call that came after the revocation finds no session that has a credential.
Refused(r) ==
  req[r].kind = "call" /\ req[r].revoked =>
    /\ req[r].answer # 200 /\ req[r].pc # "user"
    /\ credential # None \/ req[r].pc = "session" => SessionOf(r) = {}

\* The sessions to be purged include the one the request came with.
PurgesOwn(r) ==
  req[r].pc = "purge" =>
    req[r].kind = "call" /\ \A s \in SessionOf(r) : s.user = req[r].user

RequestOK(r) ==
  /\ req[r].pc = "idle" => req[r].answer # 200
  /\ req[r].pc \in {"password", "mint"} => req[r].kind = "sign-in" /\ req[r].user # None
  /\ req[r].kind = "call" => Spent(req[r].cookie.token)
  /\ Refused(r) /\ PurgesOwn(r)

WebInv ==
  /\ RequestShape
  /\ \A cookie \in cookies : Spent(cookie.token)
  /\ \A r \in Request : RequestOK(r)

SmokeInv ==
  /\ smoke = SmokeFields(smoke)
  /\ smoke.pc = "deck" => smoke.cookie \in cookies

SandboxInv == OperatorInv /\ Owned /\ WebInv /\ SmokeInv

-----------------------------------------------------------------------------
(* The records                                                             *)

LEMMA CommandRecord ==
  ASSUME CommandShape, NEW c \in Command
  PROVE  cmd[c] = CommandFields(cmd[c]) /\ DOMAIN cmd = Command /\ DOMAIN tx = Command
BY DEF CommandShape

\* A step of a command changes its own record only.
OwnRecord(c) ==
  /\ cmd' = [d \in Command |-> CommandFields(cmd'[d])]
  /\ \A d \in Command \ {c} : cmd'[d] = cmd[d]

OwnRows(c) ==
  /\ tx' = [d \in Command |-> tx'[d]]
  /\ \A d \in Command \ {c} : tx'[d] = tx[d]

LEMMA RecordUpdated ==
  ASSUME CommandShape, NEW c \in Command,
         cmd' = [cmd EXCEPT ![c] = cmd'[c]], cmd'[c] = CommandFields(cmd'[c])
  PROVE  OwnRecord(c)
BY CommandRecord DEF CommandShape, OwnRecord

SetCreated(c, pc, created) == cmd' = [cmd EXCEPT ![c].pc = pc, ![c].created = created]
SetUser(c, u, pc) == cmd' = [cmd EXCEPT ![c].user = u, ![c].pc = pc]
SetCredential(c, u, pc) == cmd' = [cmd EXCEPT ![c].credential = u, ![c].pc = pc]
SetKind(c, k, pc) == cmd' = [cmd EXCEPT ![c].kind = k, ![c].pc = pc]

\* The rows it has read are still those.
SameFound(c) == cmd'[c].user = cmd[c].user /\ cmd'[c].credential = cmd[c].credential

LEMMA GoEffect ==
  ASSUME CommandShape, NEW c \in Command, NEW pc, Go(c, pc)
  PROVE  /\ OwnRecord(c) /\ cmd'[c].pc = pc /\ SameFound(c)
         /\ cmd'[c].kind = cmd[c].kind /\ cmd'[c].created = cmd[c].created
<1>1. c \in DOMAIN cmd /\ cmd[c] = CommandFields(cmd[c])
  BY CommandRecord
<1>2. cmd' = [cmd EXCEPT ![c] = cmd'[c]]
  BY <1>1 DEF Go
<1>3. cmd'[c] = CommandFields(cmd'[c])
  BY <1>1 DEF Go, CommandFields
<1>4. /\ cmd'[c].pc = pc /\ SameFound(c)
      /\ cmd'[c].kind = cmd[c].kind /\ cmd'[c].created = cmd[c].created
  BY <1>1 DEF Go, CommandFields, SameFound
<1> QED
  BY <1>2, <1>3, <1>4, RecordUpdated

LEMMA CreatedEffect ==
  ASSUME CommandShape, NEW c \in Command, NEW pc, NEW created, SetCreated(c, pc, created)
  PROVE  /\ OwnRecord(c) /\ cmd'[c].pc = pc /\ cmd'[c].kind = cmd[c].kind
         /\ cmd'[c].created = created
         /\ SameFound(c)
<1>1. c \in DOMAIN cmd /\ cmd[c] = CommandFields(cmd[c])
  BY CommandRecord
<1>2. cmd' = [cmd EXCEPT ![c] = cmd'[c]]
  BY <1>1 DEF SetCreated
<1>3. cmd'[c] = CommandFields(cmd'[c])
  BY <1>1 DEF SetCreated, CommandFields
<1>4. /\ cmd'[c].pc = pc /\ cmd'[c].kind = cmd[c].kind /\ cmd'[c].created = created
      /\ SameFound(c)
  BY <1>1 DEF SetCreated, CommandFields, SameFound
<1> QED
  BY <1>2, <1>3, <1>4, RecordUpdated

LEMMA UserEffect ==
  ASSUME CommandShape, NEW c \in Command, NEW u, NEW pc, SetUser(c, u, pc)
  PROVE  /\ OwnRecord(c) /\ cmd'[c].pc = pc /\ cmd'[c].kind = cmd[c].kind
         /\ cmd'[c].created = cmd[c].created
         /\ cmd'[c].user = u /\ cmd'[c].credential = cmd[c].credential
<1>1. c \in DOMAIN cmd /\ cmd[c] = CommandFields(cmd[c])
  BY CommandRecord
<1>2. cmd' = [cmd EXCEPT ![c] = cmd'[c]]
  BY <1>1 DEF SetUser
<1>3. cmd'[c] = CommandFields(cmd'[c])
  BY <1>1 DEF SetUser, CommandFields
<1>4. /\ cmd'[c].pc = pc /\ cmd'[c].kind = cmd[c].kind /\ cmd'[c].created = cmd[c].created
      /\ cmd'[c].user = u /\ cmd'[c].credential = cmd[c].credential
  BY <1>1 DEF SetUser, CommandFields
<1> QED
  BY <1>2, <1>3, <1>4, RecordUpdated

LEMMA CredentialEffect ==
  ASSUME CommandShape, NEW c \in Command, NEW u, NEW pc, SetCredential(c, u, pc)
  PROVE  /\ OwnRecord(c) /\ cmd'[c].pc = pc /\ cmd'[c].kind = cmd[c].kind
         /\ cmd'[c].created = cmd[c].created
         /\ cmd'[c].user = cmd[c].user /\ cmd'[c].credential = u
<1>1. c \in DOMAIN cmd /\ cmd[c] = CommandFields(cmd[c])
  BY CommandRecord
<1>2. cmd' = [cmd EXCEPT ![c] = cmd'[c]]
  BY <1>1 DEF SetCredential
<1>3. cmd'[c] = CommandFields(cmd'[c])
  BY <1>1 DEF SetCredential, CommandFields
<1>4. /\ cmd'[c].pc = pc /\ cmd'[c].kind = cmd[c].kind /\ cmd'[c].created = cmd[c].created
      /\ cmd'[c].user = cmd[c].user /\ cmd'[c].credential = u
  BY <1>1 DEF SetCredential, CommandFields
<1> QED
  BY <1>2, <1>3, <1>4, RecordUpdated

LEMMA KindEffect ==
  ASSUME CommandShape, NEW c \in Command, NEW k, NEW pc, SetKind(c, k, pc)
  PROVE  /\ OwnRecord(c) /\ cmd'[c].pc = pc /\ cmd'[c].kind = k /\ cmd'[c].created = cmd[c].created
         /\ SameFound(c)
<1>1. c \in DOMAIN cmd /\ cmd[c] = CommandFields(cmd[c])
  BY CommandRecord
<1>2. cmd' = [cmd EXCEPT ![c] = cmd'[c]]
  BY <1>1 DEF SetKind
<1>3. cmd'[c] = CommandFields(cmd'[c])
  BY <1>1 DEF SetKind, CommandFields
<1>4. /\ cmd'[c].pc = pc /\ cmd'[c].kind = k /\ cmd'[c].created = cmd[c].created
      /\ SameFound(c)
  BY <1>1 DEF SetKind, CommandFields, SameFound
<1> QED
  BY <1>2, <1>3, <1>4, RecordUpdated

LEMMA HoldEffect ==
  ASSUME CommandShape, NEW c \in Command, NEW rows, Hold(c, rows)
  PROVE  OwnRows(c) /\ tx'[c] = tx[c] \cup {"begun"} \cup rows
<1>1. DOMAIN tx = Command
  BY CommandRecord
<1> QED
  BY <1>1 DEF Hold, OwnRows

LEMMA ReleaseEffect ==
  ASSUME CommandShape, NEW c \in Command, Release(c)
  PROVE  OwnRows(c) /\ tx'[c] = {}
<1>1. DOMAIN tx = Command
  BY CommandRecord
<1> QED
  BY <1>1 DEF Release, OwnRows

LEMMA ThrowEffect ==
  ASSUME CommandShape, NEW c \in Command, Throw(c)
  PROVE  /\ OwnRecord(c) /\ OwnRows(c) /\ cmd'[c].pc = "1"
         /\ cmd'[c].kind = cmd[c].kind /\ cmd'[c].created = cmd[c].created
         /\ file' = IF cmd[c].created THEN None ELSE file
BY GoEffect, ReleaseEffect DEF Throw, Unlink, Release

LEMMA RowsKept ==
  ASSUME CommandShape, NEW c \in Command, UNCHANGED tx
  PROVE  OwnRows(c)
BY DEF CommandShape, OwnRows

-----------------------------------------------------------------------------
(* A step of a command                                                     *)

\* A step that neither inserts nor resets, nor opens the way to the history.
Plain(c) ==
  /\ OwnRecord(c) /\ OwnRows(c)
  /\ ~Inserting(c)' /\ cmd'[c].pc \notin Resetting
  /\ grants' = grants /\ (history' = "none" => history = "none")

LEMMA PlainKeeps ==
  ASSUME OperatorInv, NEW c \in Command, Plain(c), user' = user \/ Inserting(c), FileOwned'
  PROVE  OperatorInv'
<1>1. CommandShape'
  BY DEF Plain, OwnRecord, OwnRows, CommandShape
<1>2. OneInserts'
  BY DEF OperatorInv, OneInserts, Plain, OwnRecord, OwnRows, Inserting
<1>3. HistoryKept'
  BY DEF OperatorInv, HistoryKept, Plain, OwnRecord, Resetting
<1> QED
  BY <1>1, <1>2, <1>3 DEF OperatorInv

LEMMA FileStays ==
  ASSUME FileOwned, NEW c \in Command, OwnRecord(c), file' = file,
         cmd'[c].created = cmd[c].created, cmd'[c].pc \notin {"idle", "1"},
         cmd'[c].kind = cmd[c].kind \/ cmd[c].pc = "idle",
         cmd[c].pc \notin {"0", "killed"} \/ cmd'[c].pc = cmd[c].pc
  PROVE  FileOwned'
BY DEF FileOwned, OwnRecord

LEMMA ThrowFile ==
  ASSUME OperatorInv, NEW c \in Command, Throw(c), cmd[c].pc \notin {"0", "killed"}
  PROVE  FileOwned'
BY ThrowEffect DEF OperatorInv, FileOwned, OwnRecord

LEMMA ThrowPlain ==
  ASSUME OperatorInv, NEW c \in Command, Throw(c),
         grants' = grants, history' = "none" => history = "none"
  PROVE  Plain(c)
BY ThrowEffect DEF OperatorInv, Plain, Inserting, Resetting, Rebuilding

LEMMA ThrowKeeps ==
  ASSUME OperatorInv, NEW c \in Command, Throw(c), cmd[c].pc \notin {"0", "killed"},
         UNCHANGED <<schema, accounts>>
  PROVE  OperatorInv'
BY ThrowPlain, ThrowFile, PlainKeeps DEF schema, accounts

LEMMA MoveKeeps ==
  ASSUME OperatorInv, NEW c \in Command, OwnRecord(c), OwnRows(c),
         cmd'[c].kind = cmd[c].kind, cmd'[c].created = cmd[c].created,
         cmd'[c].pc \notin Resetting \cup {"idle", "1"},
         cmd[c].kind = "provision" => cmd'[c].pc \notin {"account", "commit"},
         cmd[c].pc \notin {"0", "killed"}, UNCHANGED <<file, user, history, grants>>
  PROVE  OperatorInv'
<1>1. FileOwned'
  BY FileStays DEF OperatorInv
<1>2. Plain(c)
  BY DEF Plain, Inserting, Resetting, Rebuilding
<1> QED
  BY <1>1, <1>2, PlainKeeps

-----------------------------------------------------------------------------
(* provision                                                               *)

LEMMA FindForProvisionKeeps ==
  ASSUME OperatorInv, NEW c \in Command, FindForProvision(c)
  PROVE  OperatorInv' /\ UNCHANGED accounts
<1>1. /\ cmd[c].kind = "provision" /\ cmd[c].pc = "find" /\ UNCHANGED <<schema, accounts>>
      /\ Throw(c) \/ (Go(c, "open") /\ UNCHANGED <<tx, file>>)
  BY DEF FindForProvision, At
<1>2. CASE Go(c, "open") /\ UNCHANGED <<tx, file>>
  BY <1>1, <1>2, GoEffect, RowsKept, MoveKeeps
     DEF OperatorInv, Resetting, Rebuilding, schema, accounts
<1> QED
  BY <1>1, <1>2, ThrowKeeps

LEMMA OpenDeliveryKeeps ==
  ASSUME OperatorInv, NEW c \in Command, OpenDelivery(c)
  PROVE  OperatorInv' /\ UNCHANGED accounts
<1>1. /\ cmd[c].kind = "provision" /\ cmd[c].pc = "open" /\ UNCHANGED <<schema, accounts>>
      /\ \/ Throw(c)
         \/ file' = c /\ SetCreated(c, "user", TRUE) /\ UNCHANGED tx
  BY DEF OpenDelivery, At, SetCreated
<1>2. CASE file' = c /\ SetCreated(c, "user", TRUE) /\ UNCHANGED tx
  <2>1. /\ OwnRecord(c) /\ cmd'[c].pc = "user" /\ cmd'[c].kind = cmd[c].kind
        /\ cmd'[c].created = TRUE
    BY <1>2, CreatedEffect DEF OperatorInv
  <2>2. OwnRows(c)
    BY <1>2, RowsKept DEF OperatorInv
  <2>3. FileOwned'
    BY <1>1, <1>2, <2>1 DEF FileOwned
  <2>4. Plain(c)
    BY <1>1, <2>1, <2>2 DEF Plain, Inserting, Resetting, Rebuilding, schema
  <2> QED
    BY <1>1, <2>3, <2>4, PlainKeeps DEF accounts
<1> QED
  BY <1>1, <1>2, ThrowKeeps

LEMMA InsertUserKeeps ==
  ASSUME OperatorInv, NEW c \in Command, InsertUser(c)
  PROVE  OperatorInv' /\ UNCHANGED accounts
<1>1. /\ cmd[c].kind = "provision" /\ cmd[c].pc = "user" /\ Free(c, {"user"})
      /\ UNCHANGED <<schema, accounts>>
      /\ \/ Throw(c)
         \/ user = None /\ Go(c, "account") /\ Hold(c, {"user"}) /\ file' = file
  BY DEF InsertUser, At
<1>2. CASE user = None /\ Go(c, "account") /\ Hold(c, {"user"}) /\ file' = file
  <2>1. /\ OwnRecord(c) /\ cmd'[c].pc = "account" /\ cmd'[c].kind = cmd[c].kind
        /\ cmd'[c].created = cmd[c].created
        /\ OwnRows(c) /\ "user" \in tx'[c]
    BY <1>2, GoEffect, HoldEffect DEF OperatorInv
  <2>2. FileOwned'
    BY <1>1, <1>2, <2>1, FileStays DEF OperatorInv
  <2>3. \A d \in Command \ {c} : ~Inserting(d)
    BY <1>1 DEF Free, OperatorInv, OneInserts
  <2>4. OneInserts'
    BY <1>1, <1>2, <2>1, <2>3 DEF OneInserts, Inserting, OwnRecord, accounts
  <2>5. HistoryKept'
    BY <1>1, <2>1 DEF OperatorInv, HistoryKept, OwnRecord, Resetting, Rebuilding, schema
  <2> QED
    BY <1>1, <2>1, <2>2, <2>4, <2>5 DEF OperatorInv, CommandShape, OwnRecord, OwnRows
<1> QED
  BY <1>1, <1>2, ThrowKeeps

LEMMA InsertAccountKeeps ==
  ASSUME OperatorInv, NEW c \in Command, InsertAccount(c)
  PROVE  OperatorInv' /\ UNCHANGED accounts
<1>1. /\ cmd[c].kind = "provision" /\ cmd[c].pc = "account"
      /\ UNCHANGED <<schema, accounts>>
      /\ Go(c, "commit") /\ Hold(c, {"account"}) /\ file' = file
  BY DEF InsertAccount, At
<1>2. /\ OwnRecord(c) /\ cmd'[c].pc = "commit" /\ cmd'[c].kind = cmd[c].kind
      /\ cmd'[c].created = cmd[c].created
      /\ OwnRows(c) /\ tx[c] \subseteq tx'[c]
  BY <1>1, GoEffect, HoldEffect DEF OperatorInv
<1>3. FileOwned'
  BY <1>1, <1>2, FileStays DEF OperatorInv
<1>4. OneInserts'
  BY <1>1, <1>2 DEF OperatorInv, OneInserts, Inserting, OwnRecord, OwnRows, accounts
<1>5. HistoryKept'
  BY <1>1, <1>2 DEF OperatorInv, HistoryKept, OwnRecord, Resetting, Rebuilding, schema
<1> QED
  BY <1>1, <1>2, <1>3, <1>4, <1>5 DEF OperatorInv, CommandShape, OwnRecord, OwnRows

LEMMA CommitProvisionKeeps ==
  ASSUME OperatorInv, NEW c \in Command, CommitProvision(c)
  PROVE  OperatorInv' /\ user = None /\ sessions' = sessions
<1>1. /\ cmd[c].kind = "provision" /\ cmd[c].pc = "commit"
      /\ UNCHANGED <<schema, sessions>>
      /\ \/ Throw(c)
         \/ SetCreated(c, "0", FALSE) /\ Release(c) /\ file' = file
  BY DEF CommitProvision, At, SetCreated
<1>2. Inserting(c) /\ user = None
  BY <1>1 DEF OperatorInv, OneInserts, Inserting
<1>3. CASE Throw(c)
  BY <1>1, <1>2, <1>3, ThrowFile, ThrowPlain, PlainKeeps DEF schema
<1>4. CASE SetCreated(c, "0", FALSE) /\ Release(c) /\ file' = file
  <2>1. /\ OwnRecord(c) /\ OwnRows(c) /\ cmd'[c].pc = "0" /\ cmd'[c].kind = cmd[c].kind
    BY <1>4, CreatedEffect, ReleaseEffect DEF OperatorInv
  <2>2. FileOwned'
    BY <1>1, <1>4, <2>1 DEF OperatorInv, FileOwned, OwnRecord
  <2>3. Plain(c)
    BY <1>1, <2>1 DEF Plain, Inserting, Resetting, Rebuilding, schema
  <2> QED
    BY <1>1, <1>2, <2>2, <2>3, PlainKeeps
<1> QED
  BY <1>1, <1>3, <1>4

-----------------------------------------------------------------------------
(* revoke, and what may happen to every command                            *)

LEMMA FindForRevokeKeeps ==
  ASSUME OperatorInv, NEW c \in Command, FindForRevoke(c)
  PROVE  OperatorInv' /\ UNCHANGED accounts
<1> DEFINE pc == IF user = None THEN "0" ELSE "account"
<1>1. /\ cmd[c].kind = "revoke" /\ cmd[c].pc = "find" /\ UNCHANGED <<schema, accounts>>
      /\ Throw(c) \/ (SetUser(c, user, pc) /\ UNCHANGED <<tx, file>>)
  BY DEF FindForRevoke, At, SetUser
<1>2. pc \in {"0", "account"}
  OBVIOUS
<1> HIDE DEF pc
<1>3. CASE SetUser(c, user, pc) /\ UNCHANGED <<tx, file>>
  BY <1>1, <1>2, <1>3, UserEffect, RowsKept, MoveKeeps
     DEF OperatorInv, Resetting, Rebuilding, schema, accounts
<1> QED
  BY <1>1, <1>3, ThrowKeeps

LEMMA DeleteAccountsKeeps ==
  ASSUME OperatorInv, NEW c \in Command, DeleteAccounts(c)
  PROVE  OperatorInv' /\ UNCHANGED accounts
<1>1. PICK rows : /\ cmd[c].kind = "revoke" /\ cmd[c].pc = "account"
                  /\ UNCHANGED <<schema, accounts>>
                  /\ Throw(c) \/ (Go(c, "sessions") /\ file' = file /\ Hold(c, rows))
  BY DEF DeleteAccounts, At
<1>2. CASE Go(c, "sessions") /\ file' = file /\ Hold(c, rows)
  BY <1>1, <1>2, GoEffect, HoldEffect, MoveKeeps
     DEF OperatorInv, Resetting, Rebuilding, schema, accounts
<1> QED
  BY <1>1, <1>2, ThrowKeeps

LEMMA DeleteSessionsKeeps ==
  ASSUME OperatorInv, NEW c \in Command, DeleteSessions(c)
  PROVE  OperatorInv' /\ UNCHANGED accounts
<1>1. PICK rows : /\ cmd[c].kind = "revoke" /\ cmd[c].pc = "sessions"
                  /\ UNCHANGED <<schema, accounts>>
                  /\ Go(c, "commit") /\ file' = file /\ Hold(c, rows)
  BY DEF DeleteSessions, At
<1> QED
  BY <1>1, GoEffect, HoldEffect, MoveKeeps
     DEF OperatorInv, Resetting, Rebuilding, schema, accounts

\* What leaves the sessions that are kept with the user they had.
Shrinks == user' = user /\ credential' \in {credential, None} /\ sessions' \subseteq sessions

LEMMA CommitRevokeKeeps ==
  ASSUME OperatorInv, NEW c \in Command, CommitRevoke(c)
  PROVE  OperatorInv' /\ Shrinks
<1>1. /\ cmd[c].kind = "revoke" /\ cmd[c].pc = "commit"
      /\ user' = user /\ history' = history /\ grants' = grants
      /\ Throw(c) \/ (Go(c, "0") /\ Release(c) /\ file' = file)
  BY DEF CommitRevoke, At, schema
<1>2. Shrinks
  BY DEF CommitRevoke, Shrinks
<1>3. CASE Throw(c)
  BY <1>1, <1>2, <1>3, ThrowFile, ThrowPlain, PlainKeeps
<1>4. CASE Go(c, "0") /\ Release(c) /\ file' = file
  BY <1>1, <1>2, <1>4, GoEffect, ReleaseEffect, MoveKeeps
     DEF OperatorInv, Resetting, Rebuilding
<1> QED
  BY <1>1, <1>3, <1>4

LEMMA FailKeeps ==
  ASSUME OperatorInv, NEW c \in Command, Fail(c)
  PROVE  OperatorInv' /\ UNCHANGED accounts
BY ThrowKeeps DEF Fail, Running, Ended

LEMMA KillKeeps ==
  ASSUME OperatorInv, NEW c \in Command, Kill(c)
  PROVE  OperatorInv' /\ UNCHANGED accounts
<1>1. /\ cmd[c].pc \notin {"0", "killed"} /\ Go(c, "killed") /\ Release(c)
      /\ UNCHANGED <<schema, accounts, file>>
  BY DEF Kill, Running, Ended
<1> QED
  BY <1>1, GoEffect, ReleaseEffect, MoveKeeps
     DEF OperatorInv, Resetting, Rebuilding, schema, accounts

LEMMA StartKeeps ==
  ASSUME OperatorInv, NEW c \in Command, Start(c)
  PROVE  OperatorInv' /\ UNCHANGED accounts
<1> DEFINE pc(k) == IF k = "migrate" THEN "migrate" ELSE "find"
<1>1. PICK k : /\ cmd[c].pc = "idle" /\ SetKind(c, k, pc(k))
               /\ UNCHANGED <<database, file>>
  BY DEF Start, SetKind
<1>2. pc(k) \in {"migrate", "find"}
  OBVIOUS
<1> HIDE DEF pc
<1>3. OwnRecord(c) /\ cmd'[c].pc = pc(k) /\ cmd'[c].created = cmd[c].created
  BY <1>1, KindEffect DEF OperatorInv
<1>4. OwnRows(c)
  BY <1>1, RowsKept DEF OperatorInv, database
<1>5. Plain(c)
  BY <1>1, <1>2, <1>3, <1>4
     DEF Plain, Inserting, Resetting, Rebuilding, database, schema
<1>6. FileOwned'
  BY <1>1, <1>2, <1>3, FileStays DEF OperatorInv
<1> QED
  BY <1>1, <1>5, <1>6, PlainKeeps DEF database, accounts

-----------------------------------------------------------------------------
(* migrate and seed                                                        *)

LEMMA DeployKeepsGrants ==
  ASSUME HistoryKept, DeployOK \/ DeployFails
  PROVE  grants' = grants /\ (history' = "none" => history = "none")
BY DEF HistoryKept, DeployOK, DeployFails

LEMMA MigrateKeeps ==
  ASSUME OperatorInv, NEW c \in Command, Migrate(c)
  PROVE  OperatorInv' /\ UNCHANGED accounts
<1>1. PICK pc \in {"0", "1"} :
        /\ cmd[c].kind = "migrate" /\ cmd[c].pc = "migrate" /\ Go(c, pc)
        /\ DeployOK \/ DeployFails
        /\ UNCHANGED <<accounts, tx, file>>
  BY DEF Migrate, At
<1>2. /\ OwnRecord(c) /\ cmd'[c].pc = pc /\ cmd'[c].kind = cmd[c].kind
      /\ OwnRows(c)
  BY <1>1, GoEffect, RowsKept DEF OperatorInv
<1>3. Plain(c)
  BY <1>1, <1>2, DeployKeepsGrants
     DEF OperatorInv, Plain, Inserting, Resetting, Rebuilding
<1>4. FileOwned'
  <2>1. file # c
    BY <1>1, SandboxAssumption DEF OperatorInv, FileOwned
  <2> QED
    BY <1>1, <1>2, <2>1 DEF OperatorInv, FileOwned, OwnRecord
<1> QED
  BY <1>1, <1>3, <1>4, PlainKeeps DEF accounts

-----------------------------------------------------------------------------
(* seed, and the end of a reset                                            *)

LEMMA LockFixturesKeeps ==
  ASSUME OperatorInv, NEW c \in Command, LockFixtures(c)
  PROVE  OperatorInv' /\ UNCHANGED accounts
<1>1. PICK rows : /\ cmd[c].kind \in {"seed", "reset"} /\ cmd[c].pc = "lock"
                  /\ UNCHANGED <<schema, accounts>>
                  /\ Throw(c) \/ (Go(c, "deck") /\ file' = file /\ Hold(c, rows))
  BY DEF LockFixtures, Data
<1>2. CASE Go(c, "deck") /\ file' = file /\ Hold(c, rows)
  BY <1>1, <1>2, GoEffect, HoldEffect, MoveKeeps
     DEF OperatorInv, Resetting, Rebuilding, schema, accounts
<1> QED
  BY <1>1, <1>2, ThrowKeeps

LEMMA InsertDeckKeeps ==
  ASSUME OperatorInv, NEW c \in Command, InsertDeck(c)
  PROVE  OperatorInv' /\ UNCHANGED accounts
<1>1. PICK rows : /\ cmd[c].kind \in {"seed", "reset"} /\ cmd[c].pc = "deck"
                  /\ UNCHANGED <<schema, accounts>>
                  /\ Throw(c) \/ (Go(c, "reconcile") /\ file' = file /\ Hold(c, rows))
  BY DEF InsertDeck, Data
<1>2. CASE Go(c, "reconcile") /\ file' = file /\ Hold(c, rows)
  BY <1>1, <1>2, GoEffect, HoldEffect, MoveKeeps
     DEF OperatorInv, Resetting, Rebuilding, schema, accounts
<1> QED
  BY <1>1, <1>2, ThrowKeeps

LEMMA ReconcileKeeps ==
  ASSUME OperatorInv, NEW c \in Command, Reconcile(c)
  PROVE  OperatorInv' /\ UNCHANGED accounts
<1>1. PICK rows : /\ cmd[c].kind \in {"seed", "reset"} /\ cmd[c].pc = "reconcile"
                  /\ UNCHANGED <<schema, accounts>>
                  /\ Throw(c) \/ (Go(c, "cards") /\ file' = file /\ Hold(c, rows))
  BY DEF Reconcile, Data
<1>2. CASE Go(c, "cards") /\ file' = file /\ Hold(c, rows)
  BY <1>1, <1>2, GoEffect, HoldEffect, MoveKeeps
     DEF OperatorInv, Resetting, Rebuilding, schema, accounts
<1> QED
  BY <1>1, <1>2, ThrowKeeps

LEMMA InsertCardsKeeps ==
  ASSUME OperatorInv, NEW c \in Command, InsertCards(c)
  PROVE  OperatorInv' /\ UNCHANGED accounts
<1>1. PICK rows : /\ cmd[c].kind \in {"seed", "reset"} /\ cmd[c].pc = "cards"
                  /\ UNCHANGED <<schema, accounts>>
                  /\ Throw(c) \/ (Go(c, "commit") /\ file' = file /\ Hold(c, rows))
  BY DEF InsertCards, Data
<1>2. CASE Go(c, "commit") /\ file' = file /\ Hold(c, rows)
  BY <1>1, <1>2, GoEffect, HoldEffect, MoveKeeps
     DEF OperatorInv, Resetting, Rebuilding, schema, accounts
<1> QED
  BY <1>1, <1>2, ThrowKeeps

LEMMA CommitFixturesKeeps ==
  ASSUME OperatorInv, NEW c \in Command, CommitFixtures(c)
  PROVE  OperatorInv' /\ UNCHANGED accounts
<1>1. /\ cmd[c].kind \in {"seed", "reset"} /\ cmd[c].pc = "commit"
      /\ UNCHANGED <<schema, accounts>>
      /\ Throw(c) \/ (Go(c, "0") /\ Release(c) /\ file' = file)
  BY DEF CommitFixtures, Data
<1>2. CASE Go(c, "0") /\ Release(c) /\ file' = file
  BY <1>1, <1>2, GoEffect, ReleaseEffect, MoveKeeps
     DEF OperatorInv, Resetting, Rebuilding, schema, accounts
<1> QED
  BY <1>1, <1>2, ThrowKeeps

\* A step within a reset, or into one.
LEMMA ResetKeeps ==
  ASSUME OperatorInv, NEW c \in Command, OwnRecord(c), OwnRows(c),
         cmd'[c].kind = cmd[c].kind, cmd'[c].created = cmd[c].created, file' = file,
         cmd[c].pc \notin {"0", "killed"}, cmd'[c].pc \notin {"idle", "1"},
         cmd[c].kind # "provision",
         cmd'[c].pc \in Resetting => cmd[c].kind = "reset",
         cmd'[c].pc \in Rebuilding => history' # "none",
         user' \in {user, None} \/ Inserting(c),
         cmd'[c].pc \in {"restoreAccount", "commitRestore"} =>
           /\ "user" \in tx'[c] /\ user' = None
           /\ Inserting(c) \/ \A d \in Command : ~Inserting(d),
         "history" \notin grants', history' = "none" => "defaults" \notin grants',
         history' = "none" =>
           history = "none" \/ \A d \in Command \ {c} : cmd[d].pc \notin Rebuilding
  PROVE  OperatorInv'
<1>1. FileOwned'
  BY FileStays DEF OperatorInv
<1>2. OneInserts'
  BY DEF OperatorInv, OneInserts, OwnRecord, OwnRows, Inserting
<1>3. HistoryKept'
  BY DEF OperatorInv, HistoryKept, OwnRecord
<1> QED
  BY <1>1, <1>2, <1>3 DEF OperatorInv, CommandShape, OwnRecord, OwnRows

LEMMA FindTesterKeeps ==
  ASSUME OperatorInv, NEW c \in Command, FindTester(c)
  PROVE  OperatorInv' /\ UNCHANGED accounts
<1> DEFINE pc == IF cmd[c].kind = "reset" THEN "role" ELSE "lock"
<1>1. /\ cmd[c].kind \in {"seed", "reset"} /\ cmd[c].pc = "find"
      /\ UNCHANGED <<schema, accounts>>
      /\ Throw(c) \/ (SetUser(c, user, pc) /\ UNCHANGED <<tx, file>>)
  BY DEF FindTester, Data, SetUser
<1>2. pc \in {"role", "lock"} /\ (pc = "role" => cmd[c].kind = "reset")
  OBVIOUS
<1> HIDE DEF pc
<1>3. CASE SetUser(c, user, pc) /\ UNCHANGED <<tx, file>>
  BY <1>1, <1>2, <1>3, UserEffect, RowsKept, ResetKeeps
     DEF OperatorInv, HistoryKept, Resetting, Rebuilding, schema, accounts
<1> QED
  BY <1>1, <1>3, ThrowKeeps

LEMMA CheckRoleKeeps ==
  ASSUME OperatorInv, NEW c \in Command, CheckRole(c)
  PROVE  OperatorInv' /\ UNCHANGED accounts
<1>1. /\ cmd[c].pc = "role" /\ UNCHANGED <<schema, accounts>>
      /\ Throw(c) \/ (Go(c, "read") /\ UNCHANGED <<tx, file>>)
  BY DEF CheckRole, Data
<1>2. cmd[c].kind = "reset"
  BY <1>1 DEF OperatorInv, HistoryKept, Resetting
<1>3. CASE Go(c, "read") /\ UNCHANGED <<tx, file>>
  BY <1>1, <1>2, <1>3, GoEffect, RowsKept, ResetKeeps
     DEF OperatorInv, HistoryKept, Resetting, Rebuilding, schema, accounts
<1> QED
  BY <1>1, <1>3, ThrowKeeps

LEMMA ReadAccountKeeps ==
  ASSUME OperatorInv, NEW c \in Command, ReadAccount(c)
  PROVE  OperatorInv' /\ UNCHANGED accounts
<1>1. /\ cmd[c].pc = "read" /\ UNCHANGED <<schema, accounts>>
      /\ Throw(c) \/ (SetCredential(c, credential, "drop") /\ UNCHANGED <<tx, file>>)
  BY DEF ReadAccount, Data, SetCredential
<1>2. cmd[c].kind = "reset"
  BY <1>1 DEF OperatorInv, HistoryKept, Resetting
<1>3. CASE SetCredential(c, credential, "drop") /\ UNCHANGED <<tx, file>>
  BY <1>1, <1>2, <1>3, CredentialEffect, RowsKept, ResetKeeps
     DEF OperatorInv, HistoryKept, Resetting, Rebuilding, schema, accounts
<1> QED
  BY <1>1, <1>3, ThrowKeeps

LEMMA DropKeeps ==
  ASSUME OperatorInv, NEW c \in Command, Drop(c), OneReset
  PROVE  OperatorInv' /\ sessions' = {}
<1>1. /\ cmd[c].pc = "drop" /\ Go(c, "replay") /\ UNCHANGED <<tx, file>>
      /\ user' = None /\ sessions' = {} /\ grants' = {}
  BY DEF Drop, Data, DropSchema
<1>2. cmd[c].kind = "reset"
  BY <1>1 DEF OperatorInv, HistoryKept, Resetting
<1>3. /\ OwnRecord(c) /\ OwnRows(c) /\ cmd'[c].pc = "replay"
      /\ cmd'[c].kind = cmd[c].kind /\ cmd'[c].created = cmd[c].created
  BY <1>1, GoEffect, RowsKept DEF OperatorInv
<1>4. \A d \in Command \ {c} : cmd[d].pc \notin Rebuilding
  BY <1>2, <1>3
     DEF OneReset, Resets, Running, Ended, OwnRecord, OperatorInv, HistoryKept, Resetting,
         Rebuilding
<1> QED
  BY <1>1, <1>2, <1>3, <1>4, ResetKeeps DEF Resetting, Rebuilding

LEMMA ReplayKeeps ==
  ASSUME OperatorInv, NEW c \in Command, Replay(c)
  PROVE  OperatorInv' /\ UNCHANGED accounts
<1>1. /\ cmd[c].pc = "replay" /\ UNCHANGED accounts
      /\ \/ DeployOK /\ Go(c, "restoreUser") /\ UNCHANGED <<tx, file>>
         \/ DeployFails /\ Throw(c)
  BY DEF Replay, Data
<1>2. cmd[c].kind = "reset"
  BY <1>1 DEF OperatorInv, HistoryKept, Resetting
<1>3. grants' = grants /\ (history' = "none" => history = "none")
  BY <1>1, DeployKeepsGrants DEF OperatorInv
<1>4. CASE DeployFails /\ Throw(c)
  BY <1>1, <1>3, <1>4, ThrowFile, ThrowPlain, PlainKeeps DEF accounts
<1>5. CASE DeployOK /\ Go(c, "restoreUser") /\ UNCHANGED <<tx, file>>
  <2>1. history' = "current"
    BY <1>5 DEF DeployOK
  <2> QED
    BY <1>1, <1>2, <1>3, <1>5, <2>1, GoEffect, RowsKept, ResetKeeps
       DEF OperatorInv, HistoryKept, Resetting, Rebuilding, accounts
<1> QED
  BY <1>1, <1>4, <1>5

LEMMA RestoreUserKeeps ==
  ASSUME OperatorInv, NEW c \in Command, RestoreUser(c)
  PROVE  OperatorInv' /\ UNCHANGED accounts
<1>1. /\ cmd[c].pc = "restoreUser" /\ Free(c, {"user"}) /\ UNCHANGED <<schema, accounts>>
      /\ \/ Throw(c)
         \/ user = None /\ Go(c, "restoreAccount") /\ Hold(c, {"user"}) /\ file' = file
  BY DEF RestoreUser, Data
<1>2. cmd[c].kind = "reset" /\ history # "none"
  BY <1>1 DEF OperatorInv, HistoryKept, Resetting, Rebuilding
<1>3. CASE user = None /\ Go(c, "restoreAccount") /\ Hold(c, {"user"}) /\ file' = file
  <2>1. \A d \in Command : ~Inserting(d)
    BY <1>1, <1>2 DEF Free, OperatorInv, OneInserts, Inserting
  <2> QED
    BY <1>1, <1>2, <1>3, <2>1, GoEffect, HoldEffect, ResetKeeps
       DEF OperatorInv, HistoryKept, Resetting, Rebuilding, schema, accounts
<1> QED
  BY <1>1, <1>3, ThrowKeeps

LEMMA RestoreAccountKeeps ==
  ASSUME OperatorInv, NEW c \in Command, RestoreAccount(c)
  PROVE  OperatorInv' /\ UNCHANGED accounts
<1>1. /\ cmd[c].pc = "restoreAccount" /\ UNCHANGED <<schema, accounts>>
      /\ Go(c, "commitRestore") /\ Hold(c, {"account"}) /\ file' = file
  BY DEF RestoreAccount, Data
<1>2. cmd[c].kind = "reset" /\ history # "none"
  BY <1>1 DEF OperatorInv, HistoryKept, Resetting, Rebuilding
<1>3. Inserting(c) /\ "user" \in tx[c] /\ user = None
  BY <1>1 DEF OperatorInv, OneInserts, Inserting
<1> QED
  BY <1>1, <1>2, <1>3, GoEffect, HoldEffect, ResetKeeps
     DEF OperatorInv, HistoryKept, Resetting, Rebuilding, schema, accounts

LEMMA CommitRestoreKeeps ==
  ASSUME OperatorInv, NEW c \in Command, CommitRestore(c)
  PROVE  OperatorInv' /\ user = None /\ sessions' = sessions
<1>1. /\ cmd[c].pc = "commitRestore" /\ UNCHANGED <<schema, sessions>>
      /\ Go(c, "usage") /\ Release(c) /\ file' = file
  BY DEF CommitRestore, Data
<1>2. cmd[c].kind = "reset" /\ history # "none"
  BY <1>1 DEF OperatorInv, HistoryKept, Resetting, Rebuilding
<1>3. Inserting(c) /\ user = None
  BY <1>1 DEF OperatorInv, OneInserts, Inserting
<1> QED
  BY <1>1, <1>2, <1>3, GoEffect, ReleaseEffect, ResetKeeps
     DEF OperatorInv, HistoryKept, Resetting, Rebuilding, schema

LEMMA GrantUsageKeeps ==
  ASSUME OperatorInv, NEW c \in Command, GrantUsage(c)
  PROVE  OperatorInv' /\ UNCHANGED accounts
<1>1. /\ cmd[c].pc = "usage" /\ history' = history /\ UNCHANGED accounts
      /\ grants' \in {grants, grants \cup {"usage"}}
      /\ (Go(c, "grant") /\ UNCHANGED <<tx, file>>)
  BY DEF GrantUsage, Data
<1>2. cmd[c].kind = "reset" /\ history # "none"
  BY <1>1 DEF OperatorInv, HistoryKept, Resetting, Rebuilding
<1>3. CASE Go(c, "grant") /\ UNCHANGED <<tx, file>>
  BY <1>1, <1>2, <1>3, GoEffect, RowsKept, ResetKeeps
     DEF OperatorInv, HistoryKept, Resetting, Rebuilding, accounts
<1> QED
  BY <1>1, <1>3

LEMMA GrantTablesKeeps ==
  ASSUME OperatorInv, NEW c \in Command, GrantTables(c)
  PROVE  OperatorInv' /\ UNCHANGED accounts
<1>1. /\ cmd[c].pc = "grant" /\ history' = history /\ UNCHANGED accounts
      /\ grants' \in {grants, grants \cup {"tables"}}
      /\ (Throw(c) /\ grants' = grants) \/ (Go(c, "defaults") /\ UNCHANGED <<tx, file>>)
  BY DEF GrantTables, Data
<1>2. cmd[c].kind = "reset" /\ history # "none"
  BY <1>1 DEF OperatorInv, HistoryKept, Resetting, Rebuilding
<1>3. CASE Go(c, "defaults") /\ UNCHANGED <<tx, file>>
  BY <1>1, <1>2, <1>3, GoEffect, RowsKept, ResetKeeps
     DEF OperatorInv, HistoryKept, Resetting, Rebuilding, accounts
<1>4. CASE Throw(c) /\ grants' = grants
  BY <1>1, <1>4, ThrowFile, ThrowPlain, PlainKeeps DEF accounts
<1> QED
  BY <1>1, <1>3, <1>4

LEMMA AlterDefaultsKeeps ==
  ASSUME OperatorInv, NEW c \in Command, AlterDefaults(c)
  PROVE  OperatorInv' /\ UNCHANGED accounts
<1>1. /\ cmd[c].pc = "defaults" /\ history' = history /\ UNCHANGED accounts
      /\ grants' \in {grants, grants \cup {"defaults"}}
      /\ (Go(c, "lock") /\ UNCHANGED <<tx, file>>)
  BY DEF AlterDefaults, Data
<1>2. cmd[c].kind = "reset" /\ history # "none"
  BY <1>1 DEF OperatorInv, HistoryKept, Resetting, Rebuilding
<1>3. CASE Go(c, "lock") /\ UNCHANGED <<tx, file>>
  BY <1>1, <1>2, <1>3, GoEffect, RowsKept, ResetKeeps
     DEF OperatorInv, HistoryKept, Resetting, Rebuilding, accounts
<1> QED
  BY <1>1, <1>3

-----------------------------------------------------------------------------
(* The sessions when an operator has taken a step                          *)

LEMMA CommandKeeps ==
  ASSUME OperatorInv, Owned, CommandStep
  PROVE  /\ OperatorInv'
         /\ Shrinks \/ sessions' = {}
<1>1. PICK c \in Command : TesterStep(c) \/ DataStep(c)
  BY DEF CommandStep
<1>2. user = None => sessions = {}
  BY DEF Owned
<1>3. UNCHANGED accounts => Shrinks
  BY DEF accounts, Shrinks
<1>4. CASE TesterStep(c)
  BY <1>2, <1>3, <1>4, FindForProvisionKeeps, OpenDeliveryKeeps, InsertUserKeeps,
     InsertAccountKeeps, CommitProvisionKeeps, FindForRevokeKeeps, DeleteAccountsKeeps,
     DeleteSessionsKeeps, CommitRevokeKeeps, StartKeeps, FailKeeps, KillKeeps
     DEF TesterStep
<1>5. CASE DataStep(c)
  <2>1. OneReset
    BY DEF CommandStep
  <2> QED
    BY <1>2, <1>3, <1>5, <2>1, MigrateKeeps, FindTesterKeeps, CheckRoleKeeps,
       ReadAccountKeeps, DropKeeps, ReplayKeeps, RestoreUserKeeps, RestoreAccountKeeps,
       CommitRestoreKeeps, GrantUsageKeeps, GrantTablesKeeps, AlterDefaultsKeeps,
       LockFixturesKeeps, InsertDeckKeeps, ReconcileKeeps, InsertCardsKeeps,
       CommitFixturesKeeps
       DEF DataStep
<1> QED
  BY <1>1, <1>4, <1>5

LEMMA RequestsStay ==
  ASSUME WebInv, UNCHANGED <<cookies, req>>, Shrinks \/ sessions' = {}
  PROVE  WebInv'
<1>1. ASSUME NEW r \in Request
      PROVE  Refused(r)' /\ PurgesOwn(r)'
  BY DEF WebInv, RequestOK, Refused, PurgesOwn, SessionOf, Shrinks
<1> QED
  BY <1>1 DEF WebInv, RequestOK, RequestShape, RequestFields, Spent

LEMMA AccountsKeep ==
  ASSUME Owned, WebInv, SmokeInv, UNCHANGED <<cookies, req, smoke>>, Shrinks \/ sessions' = {}
  PROVE  Owned' /\ WebInv' /\ SmokeInv'
<1>1. Owned'
  BY DEF Owned, Shrinks
<1> QED
  BY <1>1, RequestsStay DEF SmokeInv, SmokeFields

-----------------------------------------------------------------------------
(* Requests                                                                *)

OwnRequest(r) ==
  /\ req' = [q \in Request |-> RequestFields(req'[q])]
  /\ \A q \in Request \ {r} : req'[q] = req[q]

LEMMA RequestRecord ==
  ASSUME RequestShape, NEW r \in Request
  PROVE  req[r] = RequestFields(req[r]) /\ DOMAIN req = Request
BY DEF RequestShape

LEMMA RequestUpdated ==
  ASSUME RequestShape, NEW r \in Request,
         req' = [req EXCEPT ![r] = req'[r]], req'[r] = RequestFields(req'[r])
  PROVE  OwnRequest(r)
BY RequestRecord DEF RequestShape, OwnRequest

Located(r, u, pc) == req' = [req EXCEPT ![r].user = u, ![r].pc = pc]
Passed(r, pc) == req' = [req EXCEPT ![r].pc = pc]
Arrived(r, kind, cookie, u, revoked, pc) ==
  req' = [req EXCEPT ![r].kind = kind, ![r].cookie = cookie, ![r].ring = ring,
            ![r].user = u, ![r].revoked = revoked, ![r].pc = pc]

\* What a step of request r leaves of it.
SameCall(r) ==
  /\ req'[r].kind = req[r].kind /\ req'[r].cookie = req[r].cookie
  /\ req'[r].revoked = req[r].revoked /\ req'[r].ring = req[r].ring

LEMMA AnswerEffect ==
  ASSUME RequestShape, NEW r \in Request, NEW status, Answer(r, status)
  PROVE  OwnRequest(r) /\ SameCall(r) /\ req'[r].pc = "done" /\ req'[r].answer = status
<1>1. r \in DOMAIN req /\ req[r] = RequestFields(req[r])
  BY RequestRecord
<1>2. req' = [req EXCEPT ![r] = req'[r]]
  BY <1>1 DEF Answer
<1>3. req'[r] = RequestFields(req'[r])
  BY <1>1 DEF Answer, RequestFields
<1>4. SameCall(r) /\ req'[r].pc = "done" /\ req'[r].answer = status
  BY <1>1 DEF Answer, RequestFields, SameCall
<1> QED
  BY <1>2, <1>3, <1>4, RequestUpdated

LEMMA PassedEffect ==
  ASSUME RequestShape, NEW r \in Request, NEW pc, Passed(r, pc)
  PROVE  /\ OwnRequest(r) /\ SameCall(r) /\ req'[r].pc = pc
         /\ req'[r].user = req[r].user /\ req'[r].answer = req[r].answer
<1>1. r \in DOMAIN req /\ req[r] = RequestFields(req[r])
  BY RequestRecord
<1>2. req' = [req EXCEPT ![r] = req'[r]]
  BY <1>1 DEF Passed
<1>3. req'[r] = RequestFields(req'[r])
  BY <1>1 DEF Passed, RequestFields
<1>4. /\ SameCall(r) /\ req'[r].pc = pc
      /\ req'[r].user = req[r].user /\ req'[r].answer = req[r].answer
  BY <1>1 DEF Passed, RequestFields, SameCall
<1> QED
  BY <1>2, <1>3, <1>4, RequestUpdated

LEMMA LocatedEffect ==
  ASSUME RequestShape, NEW r \in Request, NEW u, NEW pc, Located(r, u, pc)
  PROVE  /\ OwnRequest(r) /\ SameCall(r) /\ req'[r].pc = pc
         /\ req'[r].user = u /\ req'[r].answer = req[r].answer
<1>1. r \in DOMAIN req /\ req[r] = RequestFields(req[r])
  BY RequestRecord
<1>2. req' = [req EXCEPT ![r] = req'[r]]
  BY <1>1 DEF Located
<1>3. req'[r] = RequestFields(req'[r])
  BY <1>1 DEF Located, RequestFields
<1>4. /\ SameCall(r) /\ req'[r].pc = pc
      /\ req'[r].user = u /\ req'[r].answer = req[r].answer
  BY <1>1 DEF Located, RequestFields, SameCall
<1> QED
  BY <1>2, <1>3, <1>4, RequestUpdated

LEMMA ArrivedEffect ==
  ASSUME RequestShape, NEW r \in Request, NEW kind, NEW cookie, NEW u, NEW revoked, NEW pc,
         Arrived(r, kind, cookie, u, revoked, pc)
  PROVE  /\ OwnRequest(r) /\ req'[r].kind = kind /\ req'[r].cookie = cookie
         /\ req'[r].user = u /\ req'[r].revoked = revoked /\ req'[r].pc = pc
         /\ req'[r].answer = req[r].answer /\ req'[r].ring = ring
<1>1. r \in DOMAIN req /\ req[r] = RequestFields(req[r])
  BY RequestRecord
<1>2. req' = [req EXCEPT ![r] = req'[r]]
  BY <1>1 DEF Arrived
<1>3. req'[r] = RequestFields(req'[r])
  BY <1>1 DEF Arrived, RequestFields
<1>4. /\ req'[r].kind = kind /\ req'[r].cookie = cookie
      /\ req'[r].user = u /\ req'[r].revoked = revoked /\ req'[r].pc = pc
      /\ req'[r].answer = req[r].answer /\ req'[r].ring = ring
  BY <1>1 DEF Arrived, RequestFields
<1> QED
  BY <1>2, <1>3, <1>4, RequestUpdated

\* Only a sign-in that is under way adds a session or a cookie, under its name.
LEMMA RequestKeeps ==
  ASSUME WebInv, NEW r \in Request, OwnRequest(r), req[r].pc # "done",
         credential' = credential,
         \A s \in sessions' : s \in sessions \/ s.token = r,
         \A cookie \in cookies' :
           cookie \in cookies \/ (cookie.token = r /\ req'[r].pc = "done"),
         RequestOK(r)'
  PROVE  WebInv'
<1>1. RequestShape'
  BY DEF OwnRequest, RequestShape
<1>2. \A token : Spent(token) => Spent(token)' /\ token # r
  BY DEF Spent, OwnRequest
<1>3. \A cookie \in cookies' : Spent(cookie.token)'
  BY <1>2 DEF WebInv, Spent
<1>4. ASSUME NEW q \in Request \ {r}
      PROVE  RequestOK(q)'
  <2>1. req'[q] = req[q] /\ RequestOK(q)
    BY DEF OwnRequest, WebInv
  <2>2. req[q].kind = "call" => SessionOf(q)' \subseteq SessionOf(q)
    BY <1>2, <2>1 DEF RequestOK, SessionOf
  <2>3. Refused(q)' /\ PurgesOwn(q)'
    BY <2>1, <2>2 DEF RequestOK, Refused, PurgesOwn
  <2> QED
    BY <1>2, <2>1, <2>3 DEF RequestOK
<1> QED
  BY <1>1, <1>3, <1>4 DEF WebInv

LEMMA DoneKeeps ==
  ASSUME WebInv, NEW r \in Request, req[r].pc # "done", NEW status, Answer(r, status),
         req[r].kind = "call" /\ req[r].revoked => status # 200,
         credential' = credential, sessions' \subseteq sessions, cookies' = cookies
  PROVE  WebInv'
<1>1. /\ OwnRequest(r) /\ SameCall(r) /\ req'[r].pc = "done" /\ req'[r].answer = status
      /\ RequestOK(r)
  BY AnswerEffect DEF WebInv
<1>2. \A token : Spent(token) => Spent(token)'
  BY <1>1 DEF Spent, OwnRequest
<1>3. Refused(r)'
  BY <1>1 DEF RequestOK, Refused, SameCall, SessionOf
<1>4. RequestOK(r)'
  BY <1>1, <1>2, <1>3 DEF RequestOK, SameCall, Spent, PurgesOwn
<1> QED
  BY <1>1, <1>4, RequestKeeps

LEMMA ArriveKeeps ==
  ASSUME WebInv, NEW r \in Request, NEW kind, NEW cookie, NEW tester,
         Arrive(r, kind, cookie, tester), UNCHANGED <<credential, sessions, cookies>>,
         kind = "sign-in" => tester # None,
         kind = "call" => cookie \in cookies
  PROVE  WebInv'
<1> DEFINE revoked == credential = None
           pc == IF kind = "sign-in" THEN "password" ELSE "hook"
<1>1. req[r].pc = "idle" /\ Arrived(r, kind, cookie, tester, revoked, pc)
  BY DEF Arrive, Arrived
<1>2. pc \in {"password", "hook"} /\ (pc = "password" => kind = "sign-in")
  OBVIOUS
<1>3. revoked = (credential = None)
  OBVIOUS
<1> HIDE DEF pc, revoked
<1>4. /\ OwnRequest(r) /\ req'[r].kind = kind /\ req'[r].cookie = cookie
      /\ req'[r].user = tester /\ req'[r].revoked = revoked /\ req'[r].pc = pc
      /\ req'[r].answer = req[r].answer
  BY <1>1, ArrivedEffect DEF WebInv
<1>5. req[r].answer # 200
  BY <1>1 DEF WebInv, RequestOK
<1>6. kind = "call" => Spent(cookie.token)'
  <2>1. kind = "call" => Spent(cookie.token)
    BY DEF WebInv
  <2> QED
    BY <1>1, <1>4, <2>1 DEF Spent, OwnRequest
<1>7. Refused(r)'
  BY <1>2, <1>3, <1>4, <1>5 DEF Refused
<1>8. RequestOK(r)'
  BY <1>2, <1>4, <1>5, <1>6, <1>7 DEF RequestOK, PurgesOwn
<1> QED
  BY <1>1, <1>4, <1>8, RequestKeeps

LEMMA VerifyPasswordKeeps ==
  ASSUME WebInv, NEW r \in Request, VerifyPassword(r)
  PROVE  WebInv'
<1>1. /\ req[r].pc = "password" /\ UNCHANGED <<credential, sessions, cookies>>
      /\ Answer(r, 500) \/ Answer(r, 401) \/ Passed(r, "mint")
  BY DEF VerifyPassword, Passed, database, accounts
<1>2. CASE Passed(r, "mint")
  <2>1. /\ OwnRequest(r) /\ SameCall(r) /\ req'[r].pc = "mint"
        /\ req'[r].user = req[r].user /\ RequestOK(r)
    BY <1>2, PassedEffect DEF WebInv
  <2>2. RequestOK(r)'
    BY <1>1, <2>1 DEF RequestOK, Refused, PurgesOwn, SameCall
  <2> QED
    BY <1>1, <2>1, <2>2, RequestKeeps
<1> QED
  BY <1>1, <1>2, DoneKeeps

LEMMA MintKeeps ==
  ASSUME Owned, WebInv, NEW r \in Request, Mint(r)
  PROVE  Owned' /\ WebInv'
<1>1. /\ req[r].pc = "mint" /\ UNCHANGED <<user, credential>>
      /\ \/ Answer(r, 500) /\ UNCHANGED <<sessions, cookies>>
         \/ /\ user = req[r].user /\ Answer(r, 200)
            /\ sessions' = sessions \cup {[token |-> r, user |-> user]}
            /\ cookies' = cookies \cup {[token |-> r, key |-> Head(req[r].ring)]}
  BY DEF Mint
<1>2. req[r].kind = "sign-in" /\ req[r].user # None /\ RequestOK(r)
  BY <1>1 DEF WebInv, RequestOK
<1>3. CASE Answer(r, 500) /\ UNCHANGED <<sessions, cookies>>
  BY <1>1, <1>3, DoneKeeps DEF Owned
<1>4. CASE /\ user = req[r].user /\ Answer(r, 200)
           /\ sessions' = sessions \cup {[token |-> r, user |-> user]}
           /\ cookies' = cookies \cup {[token |-> r, key |-> Head(req[r].ring)]}
  <2>1. Owned'
    BY <1>1, <1>2, <1>4 DEF Owned
  <2>2. OwnRequest(r) /\ SameCall(r) /\ req'[r].pc = "done"
    BY <1>4, AnswerEffect DEF WebInv
  <2>3. RequestOK(r)'
    BY <1>2, <2>2 DEF RequestOK, Refused, PurgesOwn, SameCall
  <2> QED
    BY <1>1, <1>4, <2>1, <2>2, <2>3, RequestKeeps
<1> QED
  BY <1>1, <1>3, <1>4

LEMMA HookKeeps ==
  ASSUME Owned, WebInv, NEW r \in Request, Hook(r)
  PROVE  WebInv'
<1> DEFINE pc == IF Orphaned(r) THEN "purge" ELSE "session"
<1>1. /\ req[r].kind = "call" /\ req[r].pc = "hook"
      /\ UNCHANGED <<credential, sessions, cookies>>
      /\ Answer(r, 401) \/ Answer(r, 500) \/ Located(r, SessionUser(r), pc)
  BY DEF Hook, Located, database, accounts
<1>2. pc \in {"purge", "session"} /\ (pc = "session" => ~Orphaned(r))
  OBVIOUS
<1> HIDE DEF pc
<1>3. CASE Located(r, SessionUser(r), pc)
  <2>1. /\ OwnRequest(r) /\ SameCall(r) /\ req'[r].pc = pc
        /\ req'[r].user = SessionUser(r)
        /\ req'[r].answer = req[r].answer /\ RequestOK(r)
    BY <1>3, LocatedEffect DEF WebInv
  <2>2. SessionOf(r)' = SessionOf(r)
    BY <1>1, <2>1 DEF SessionOf, SameCall
  <2>3. Refused(r)'
    BY <1>1, <1>2, <2>1, <2>2 DEF RequestOK, Refused, SameCall, Orphaned
  <2>4. \A token : Spent(token) => Spent(token)'
    BY <1>1, <2>1 DEF Spent, OwnRequest
  <2>5. ASSUME NEW s \in SessionOf(r)
        PROVE  s.user = SessionUser(r)
    BY DEF Owned, SessionOf, SessionUser
  <2>6. PurgesOwn(r)'
    BY <1>1, <2>1, <2>2, <2>5 DEF PurgesOwn, SameCall
  <2>7. RequestOK(r)'
    BY <1>2, <2>1, <2>3, <2>4, <2>6 DEF RequestOK, SameCall, Spent
  <2> QED
    BY <1>1, <2>1, <2>7, RequestKeeps
<1> QED
  BY <1>1, <1>3, DoneKeeps

LEMMA PurgeKeeps ==
  ASSUME WebInv, NEW r \in Request, Purge(r)
  PROVE  WebInv'
<1>1. /\ req[r].pc = "purge" /\ credential' = credential /\ cookies' = cookies
      /\ sessions' \subseteq sessions /\ (Answer(r, 500) \/ Answer(r, 401))
  BY DEF Purge
<1> QED
  BY <1>1, DoneKeeps

LEMMA GetSessionKeeps ==
  ASSUME WebInv, NEW r \in Request, GetSession(r)
  PROVE  WebInv'
<1>1. /\ req[r].pc = "session" /\ UNCHANGED <<credential, sessions, cookies>>
      /\ \/ Answer(r, 500) \/ Answer(r, 401)
         \/ SessionOf(r) # {} /\ Located(r, SessionUser(r), "user")
  BY DEF GetSession, Located, database, accounts
<1>2. CASE SessionOf(r) # {} /\ Located(r, SessionUser(r), "user")
  <2>1. /\ OwnRequest(r) /\ SameCall(r) /\ req'[r].pc = "user"
        /\ req'[r].answer = req[r].answer /\ RequestOK(r)
    BY <1>2, LocatedEffect DEF WebInv
  <2>2. ~(req[r].kind = "call" /\ req[r].revoked)
    BY <1>1, <1>2, <2>1 DEF RequestOK, Refused
  <2>3. \A token : Spent(token) => Spent(token)'
    BY <1>1, <2>1 DEF Spent, OwnRequest
  <2>4. RequestOK(r)'
    BY <2>1, <2>2, <2>3 DEF RequestOK, Refused, PurgesOwn, SameCall, Spent
  <2> QED
    BY <1>1, <2>1, <2>4, RequestKeeps
<1> QED
  BY <1>1, <1>2, DoneKeeps

LEMMA CustomSessionKeeps ==
  ASSUME WebInv, NEW r \in Request, CustomSession(r)
  PROVE  WebInv'
<1>1. /\ req[r].pc = "user" /\ UNCHANGED <<credential, sessions, cookies>>
      /\ Answer(r, 200) \/ Answer(r, 500)
  BY DEF CustomSession, database, accounts
<1>2. ~(req[r].kind = "call" /\ req[r].revoked)
  BY <1>1 DEF WebInv, RequestOK, Refused
<1> QED
  BY <1>1, <1>2, DoneKeeps

LEMMA SignOutKeeps ==
  ASSUME WebInv, NEW r \in Request, SignOut(r)
  PROVE  WebInv'
<1>1. /\ req[r].kind = "sign-out" /\ req[r].pc = "hook"
      /\ credential' = credential /\ cookies' = cookies
      /\ sessions' \subseteq sessions /\ (Answer(r, 500) \/ Answer(r, 200))
  BY DEF SignOut
<1> QED
  BY <1>1, DoneKeeps

\* The requests take sessions away, or mint one of the user there is.
LEMMA RequestStepKeeps ==
  ASSUME Owned, WebInv, NEW r \in Request, RequestStep(r)
  PROVE  /\ Owned' /\ WebInv'
         /\ UNCHANGED schema /\ UNCHANGED <<user, tx>> /\ cookies \subseteq cookies'
<1>1. UNCHANGED schema /\ UNCHANGED <<user, tx>> /\ cookies \subseteq cookies'
  BY DEF RequestStep, VerifyPassword, Mint, Hook, Purge, GetSession, CustomSession,
     SignOut, database, accounts
<1>2. CASE Mint(r)
  BY <1>1, <1>2, MintKeeps
<1>3. CASE ~Mint(r)
  <2>1. WebInv'
    BY <1>3, VerifyPasswordKeeps, HookKeeps, PurgeKeeps, GetSessionKeeps,
       CustomSessionKeeps, SignOutKeeps DEF RequestStep
  <2>2. sessions' \subseteq sessions
    BY <1>3 DEF RequestStep, VerifyPassword, Hook, Purge, GetSession, CustomSession,
       SignOut, database, accounts
  <2> QED
    BY <1>1, <2>1, <2>2 DEF Owned
<1> QED
  BY <1>2, <1>3

-----------------------------------------------------------------------------
(* Browsers, the smoke, a candidate and the tester's edits                 *)

LEMMA OperatorStays ==
  ASSUME OperatorInv, UNCHANGED <<cmd, file, tx, user>>,
         grants' = grants, history' = "none" => history = "none"
  PROVE  OperatorInv'
<1>1. CommandShape'
  BY DEF OperatorInv, CommandShape, CommandFields
<1>2. OneInserts'
  BY DEF OperatorInv, OneInserts, Inserting
<1>3. FileOwned'
  BY DEF OperatorInv, FileOwned
<1>4. HistoryKept'
  BY DEF OperatorInv, HistoryKept
<1> QED
  BY <1>1, <1>2, <1>3, <1>4 DEF OperatorInv

LEMMA BrowseKeeps ==
  ASSUME OperatorInv, WebInv, NEW r \in Request, Browse(r)
  PROVE  WebInv'
<1>1. UNCHANGED <<credential, sessions, cookies>>
  BY DEF Browse, database, accounts
<1>2. CASE \E t \in {First, file} \ {None} : SignIn(r, t)
  <2>1. PICK t \in {First, file} \ {None} : Arrive(r, "sign-in", None, t)
    BY <1>2 DEF SignIn
  <2> QED
    BY <1>1, <2>1, ArriveKeeps
<1>3. CASE \E cookie \in cookies, kind \in {"call", "sign-out"} : Carry(r, kind, cookie)
  <2>1. PICK cookie \in cookies, kind \in {"call", "sign-out"} : Arrive(r, kind, cookie, None)
    BY <1>3 DEF Carry
  <2> QED
    BY <1>1, <2>1, ArriveKeeps
<1> QED
  BY <1>2, <1>3 DEF Browse

LEMMA WebKeeps ==
  ASSUME SandboxInv, WebStep
  PROVE  SandboxInv'
<1>1. /\ UNCHANGED <<cmd, file, smoke>>
  BY DEF WebStep, operator, delivery
<1>2. CASE \E r \in (Request \ SmokeRequests) \cap cast : Browse(r)
  <2>1. WebInv' /\ UNCHANGED database /\ cookies' = cookies
    BY <1>2, BrowseKeeps DEF SandboxInv, Browse
  <2>2. OperatorInv' /\ Owned'
    BY <1>1, <2>1, OperatorStays DEF SandboxInv, Owned, database, accounts, schema
  <2> QED
    BY <1>1, <2>1, <2>2 DEF SandboxInv, SmokeInv, SmokeFields
<1>3. CASE \E r \in Request : RequestStep(r)
  <2>1. /\ Owned' /\ WebInv' /\ UNCHANGED schema /\ UNCHANGED <<user, tx>>
        /\ cookies \subseteq cookies'
    BY <1>3, RequestStepKeeps DEF SandboxInv
  <2>2. OperatorInv'
    BY <1>1, <2>1, OperatorStays DEF SandboxInv, schema
  <2> QED
    BY <1>1, <2>1, <2>2 DEF SandboxInv, SmokeInv, SmokeFields
<1> QED
  BY <1>2, <1>3 DEF WebStep

LEMMA EditsKeep ==
  ASSUME SandboxInv, TesterEdits, UNCHANGED <<web, delivery>>
  PROVE  SandboxInv'
<1>1. /\ UNCHANGED schema /\ UNCHANGED accounts /\ UNCHANGED <<tx, cmd, file>>
      /\ UNCHANGED <<cookies, req, smoke>>
  BY DEF TesterEdits, operator, web, delivery
<1>2. OperatorInv'
  BY <1>1, OperatorStays DEF SandboxInv, schema, accounts
<1> QED
  BY <1>1, <1>2, AccountsKeep DEF SandboxInv, Shrinks, accounts

LEMMA CandidateKeeps ==
  ASSUME SandboxInv, CandidateStep, UNCHANGED operator
  PROVE  SandboxInv'
<1>1. /\ UNCHANGED accounts /\ UNCHANGED <<tx, cmd, file>> /\ UNCHANGED <<cookies, req, smoke>>
      /\ UNCHANGED schema \/ DeployOK \/ DeployFails
  BY DEF CandidateStep, Deploy, CheckDirect, MigrateDeploy, ExecServer, operator
<1>2. grants' = grants /\ (history' = "none" => history = "none")
  BY <1>1, DeployKeepsGrants DEF SandboxInv, OperatorInv, schema
<1>3. OperatorInv'
  BY <1>1, <1>2, OperatorStays DEF SandboxInv, accounts
<1> QED
  BY <1>1, <1>3, AccountsKeep DEF SandboxInv, Shrinks, accounts

\* The smoke is at its deck with a cookie it was given.
LEMMA SmokeRecordKept ==
  ASSUME SmokeInv, SmokeStep
  PROVE  SmokeInv'
<1> DEFINE after == IF smoke.cookie = None THEN "over" ELSE "sign out"
<1>1. after # "deck"
  OBVIOUS
<1> HIDE DEF after
<1>2. cookies' = cookies
  BY DEF SmokeStep
<1>3. smoke = SmokeFields(smoke)
  BY DEF SmokeInv
<1>4. ASSUME NEW pc, pc # "deck", SmokeGo(pc)
      PROVE  SmokeInv'
  BY <1>3, <1>4 DEF SmokeInv, SmokeGo, SmokeFields
<1>5. ASSUME smoke' = [smoke EXCEPT !.failed = TRUE, !.pc = after]
      PROVE  SmokeInv'
  BY <1>1, <1>3, <1>5 DEF SmokeInv, SmokeFields
<1>6. ASSUME SmokeFails PROVE SmokeInv'
  BY <1>5, <1>6 DEF SmokeFails, after
<1>7. ASSUME SignOutFails PROVE SmokeInv'
  BY <1>3, <1>7 DEF SignOutFails, SmokeInv, SmokeFields
<1>8. CASE SmokeStart
  BY <1>3, <1>8 DEF SmokeStart, SmokeInv, SmokeFields
<1>9. CASE SmokeReads
  <2>1. SmokeFails \/ \E pc \in {"health", "documents", "sign in"} : SmokeGo(pc)
    BY <1>9 DEF SmokeReads
  <2> QED
    BY <1>4, <1>6, <2>1
<1>10. CASE SmokeSends
  <2>1. \E pc \in {"signing in", "reading", "signing out"} : SmokeGo(pc)
    BY <1>10 DEF SmokeSends
  <2> QED
    BY <1>4, <2>1
<1>11. CASE SmokeReceives
  <2>1. \/ SmokeFails \/ SignOutFails \/ SmokeGo("sign out") \/ SmokeGo("over")
        \/ \E c \in cookies : smoke' = [smoke EXCEPT !.cookie = c, !.pc = "deck"]
    BY <1>11 DEF SmokeReceives
  <2>2. ASSUME NEW c \in cookies, smoke' = [smoke EXCEPT !.cookie = c, !.pc = "deck"]
        PROVE  SmokeInv'
    BY <1>2, <1>3, <2>2 DEF SmokeInv, SmokeFields
  <2> QED
    BY <1>4, <1>6, <1>7, <2>1, <2>2
<1>12. CASE SmokeTimesOut
  BY <1>6, <1>7, <1>12 DEF SmokeTimesOut
<1> QED
  BY <1>8, <1>9, <1>10, <1>11, <1>12 DEF SmokeStep

LEMMA SmokeKeeps ==
  ASSUME SandboxInv, SmokeStep, UNCHANGED operator
  PROVE  SandboxInv'
<1>1. UNCHANGED database /\ cookies' = cookies
  BY DEF SmokeStep
<1>2. UNCHANGED <<cmd, file>>
  BY DEF operator
<1>3. OperatorInv' /\ Owned'
  BY <1>1, <1>2, OperatorStays DEF SandboxInv, Owned, database, accounts, schema
<1>4. SmokeInv'
  BY SmokeRecordKept DEF SandboxInv
<1>5. CASE UNCHANGED req
  <2>1. WebInv'
    BY <1>1, <1>5, RequestsStay DEF SandboxInv, Shrinks, database, accounts
  <2> QED
    BY <1>3, <1>4, <2>1 DEF SandboxInv
<1>6. CASE SmokeSends
  <2>1. UNCHANGED <<credential, sessions, cookies>>
    BY <1>1 DEF database, accounts
  <2>2. First # None
    BY SandboxAssumption
  <2>3. SmokeRequests \subseteq Request
    BY ReleaseAssumption DEF SmokeRequests
  <2>4. \/ Arrive(SmokeSignIn, "sign-in", None, First)
        \/ smoke.pc = "deck" /\ Arrive(SmokeDeck, "call", smoke.cookie, None)
        \/ Arrive(SmokeSignOut, "sign-out", smoke.cookie, None)
    BY <1>6 DEF SmokeSends, SignIn, Carry
  <2>5. smoke.pc = "deck" => smoke.cookie \in cookies
    BY DEF SandboxInv, SmokeInv
  <2>6. WebInv'
    BY <2>1, <2>2, <2>3, <2>4, <2>5, ArriveKeeps DEF SandboxInv, SmokeRequests
  <2> QED
    BY <1>3, <1>4, <2>6 DEF SandboxInv
<1> QED
  BY <1>5, <1>6 DEF SmokeStep, SmokeStart, SmokeReads, SmokeReceives, SmokeTimesOut

-----------------------------------------------------------------------------

LEMMA SandboxInvInit == Init => SandboxInv
<1> SUFFICES ASSUME Init PROVE SandboxInv
  OBVIOUS
<1>1. CommandShape /\ \A c \in Command : cmd[c] = Idle
  BY DEF Init, CommandShape, CommandFields, Idle
<1>2. OperatorInv
  BY <1>1 DEF Init, OperatorInv, OneInserts, Inserting, FileOwned, HistoryKept, Idle,
     Resetting, Rebuilding
<1>3. Owned
  BY DEF Init, Owned
<1>4. RequestShape /\ \A r \in Request : req[r] = NoRequest
  BY DEF Init, RequestShape, RequestFields, NoRequest
<1>5. \A cookie \in cookies : Spent(cookie.token)
  <2>1. \A s \in sessions : s.token = First
    BY DEF Init
  <2>2. cookies = {[token |-> s.token, key |-> ring[Len(ring)]] : s \in sessions}
    BY DEF Init
  <2>3. \A cookie \in cookies : cookie.token = First
    BY <2>1, <2>2
  <2> QED
    BY <2>3, SandboxAssumption DEF Spent
<1>6. \A r \in Request : RequestOK(r)
  BY <1>4, KindAssumption DEF Kind, RequestOK, Refused, PurgesOwn, NoRequest
<1>7. SmokeInv
  BY DEF Init, SmokeInv, SmokeFields, NoSmoke
<1> QED
  BY <1>2, <1>3, <1>4, <1>5, <1>6, <1>7 DEF SandboxInv, WebInv

LEMMA SandboxInvNext == SandboxInv /\ [Next]_vars => SandboxInv'
<1> SUFFICES ASSUME SandboxInv, [Next]_vars PROVE SandboxInv'
  OBVIOUS
<1>1. CASE CommandStep
  <2>1. OperatorInv' /\ (Shrinks \/ sessions' = {})
    BY <1>1, CommandKeeps DEF SandboxInv
  <2>2. UNCHANGED <<cookies, req, smoke>>
    BY <1>1 DEF CommandStep, web, delivery
  <2> QED
    BY <2>1, <2>2, AccountsKeep DEF SandboxInv
<1>2. CASE UNCHANGED vars
  <2>1. /\ UNCHANGED schema /\ UNCHANGED accounts /\ UNCHANGED <<tx, cmd, file>>
        /\ UNCHANGED <<cookies, req, smoke>>
    BY <1>2 DEF vars, database, operator, web, delivery
  <2>2. OperatorInv'
    BY <2>1, OperatorStays DEF SandboxInv, schema, accounts
  <2> QED
    BY <2>1, <2>2, AccountsKeep DEF SandboxInv, Shrinks, accounts
<1> QED
  BY <1>1, <1>2, WebKeeps, EditsKeep, CandidateKeeps, SmokeKeeps DEF Next, EditStep

\* Of any number of operators, browsers, releases and smokes: the sessions are
\* the tester's that there is, a cookie names a sign-in that is over, one
\* transaction at a time inserts a tester, and a delivery file has its run.
THEOREM SandboxInvariant == Spec => []SandboxInv
BY SandboxInvInit, SandboxInvNext, PTL DEF Spec

\* The hook of src/lib/auth.ts refuses every call that arrives after the
\* revocation, with whatever session, however many sign-ins were in flight.
THEOREM AlwaysRevokedRefused == Spec => []RevokedRefused
<1>1. SandboxInv => RevokedRefused
  BY DEF SandboxInv, WebInv, RequestOK, Refused, RevokedRefused
<1> QED
  BY <1>1, SandboxInvariant, PTL

\* No order of resets, migrations and releases grants the runtime role the
\* history of migrations: default privileges come after the table is there.
THEOREM AlwaysHistoryDenied == Spec => []HistoryDenied
<1>1. SandboxInv => HistoryDenied
  BY DEF SandboxInv, OperatorInv, HistoryKept, HistoryDenied
<1> QED
  BY <1>1, SandboxInvariant, PTL

\* A request that is answered 401 is so for its signature or for its session.
LEMMA RefusalHasReason ==
  ASSUME WebInv, NEW r \in Request, NEW q \in Request, RequestStep(q),
         req[r].kind = "call", req[r].answer = 0, req'[r].answer = 401
  PROVE  \/ req[r].cookie.key \notin Keys(req[r].ring)
         \/ \A s \in sessions' : s.token # req[r].cookie.token
<1>1. r = q
  <2>1. OwnRequest(q)
    <3>1. RequestShape
      BY DEF WebInv
    <3>2. \/ \E status \in {200, 401, 500} : Answer(q, status)
          \/ Passed(q, "mint") \/ Located(q, SessionUser(q), "user")
          \/ \E pc \in {"purge", "session"} : Located(q, SessionUser(q), pc)
      BY DEF RequestStep, VerifyPassword, Mint, Hook, Purge, GetSession, CustomSession,
         SignOut, Passed, Located
    <3> QED
      BY <3>1, <3>2, AnswerEffect, PassedEffect, LocatedEffect
  <2> QED
    BY <2>1 DEF OwnRequest
<1>2. RequestShape /\ RequestOK(r)
  BY DEF WebInv
<1>3. ASSUME NEW status, Answer(r, status)
      PROVE  status = 401
  BY <1>2, <1>3, AnswerEffect
<1>4. CASE Hook(r)
  <2> DEFINE pc == IF Orphaned(r) THEN "purge" ELSE "session"
  <2>1. \/ ~Verified(r) \/ Answer(r, 500) \/ Located(r, SessionUser(r), pc)
    BY <1>4 DEF Hook, Located
  <2> HIDE DEF pc
  <2>2. ~Located(r, SessionUser(r), pc)
    BY <1>2, LocatedEffect
  <2> QED
    BY <1>3, <2>1, <2>2 DEF Verified
<1>5. CASE Purge(r)
  <2>1. sessions' = sessions \ SessionsOf(req[r].user)
    BY <1>3, <1>5 DEF Purge
  <2>2. \A s \in SessionOf(r) : s.user = req[r].user
    BY <1>2, <1>5 DEF Purge, RequestOK, PurgesOwn
  <2> QED
    BY <2>1, <2>2 DEF SessionOf, SessionsOf
<1>6. CASE GetSession(r)
  <2>1. \/ SessionOf(r) = {} /\ sessions' = sessions
        \/ Answer(r, 500) \/ Located(r, SessionUser(r), "user")
    BY <1>6 DEF GetSession, Located, database, accounts
  <2>2. ~Located(r, SessionUser(r), "user")
    BY <1>2, LocatedEffect
  <2> QED
    BY <1>3, <2>1, <2>2 DEF SessionOf
<1>7. ~VerifyPassword(r) /\ ~Mint(r) /\ ~SignOut(r)
  BY <1>2 DEF VerifyPassword, Mint, SignOut, RequestOK
<1>8. ~CustomSession(r)
  BY <1>3 DEF CustomSession
<1> QED
  BY <1>1, <1>4, <1>5, <1>6, <1>7, <1>8 DEF RequestStep

LEMMA ArriveAnswers ==
  ASSUME WebInv, NEW q \in Request, NEW kind, NEW cookie, NEW tester,
         Arrive(q, kind, cookie, tester), NEW r \in Request
  PROVE  req'[r].answer = req[r].answer
<1> DEFINE revoked == credential = None
           pc == IF kind = "sign-in" THEN "password" ELSE "hook"
<1>1. Arrived(q, kind, cookie, tester, revoked, pc)
  BY DEF Arrive, Arrived
<1> HIDE DEF pc, revoked
<1>2. OwnRequest(q) /\ req'[q].answer = req[q].answer
  BY <1>1, ArrivedEffect DEF WebInv
<1> QED
  BY <1>2 DEF OwnRequest

\* While a key is in the ring, current or previous, a rotation costs nobody a
\* session: a call is answered 401 for a key that has left or a session that
\* is gone, whatever operators and other requests do in between.
THEOREM KeysAlwaysHonoured == Spec => RetainedKeysHonoured
<1>1. SandboxInv /\ [Next]_vars =>
        [\A r \in Request :
           req[r].kind = "call" /\ req[r].answer = 0 /\ req'[r].answer = 401 =>
             \/ req[r].cookie.key \notin Keys(req[r].ring)
             \/ \A s \in sessions' : s.token # req[r].cookie.token]_vars
  <2> SUFFICES ASSUME SandboxInv, Next, NEW r \in Request,
                      req[r].kind = "call", req[r].answer = 0, req'[r].answer = 401
               PROVE  \/ req[r].cookie.key \notin Keys(req[r].ring)
                      \/ \A s \in sessions' : s.token # req[r].cookie.token
    OBVIOUS
  <2>1. WebInv
    BY DEF SandboxInv
  <2>2. CASE \E q \in Request : RequestStep(q)
    BY <2>1, <2>2, RefusalHasReason
  <2>3. ASSUME NEW q \in Request, NEW kind, NEW cookie, NEW tester,
               Arrive(q, kind, cookie, tester)
        PROVE  FALSE
    BY <2>1, <2>3, ArriveAnswers
  <2>4. SmokeRequests \subseteq Request
    BY ReleaseAssumption DEF SmokeRequests
  <2>5. ASSUME NEW q \in Request, Browse(q) PROVE FALSE
    BY <2>3, <2>5 DEF Browse, SignIn, Carry
  <2>6. ASSUME SmokeSends PROVE FALSE
    <3>1. \/ Arrive(SmokeSignIn, "sign-in", None, First)
          \/ Arrive(SmokeDeck, "call", smoke.cookie, None)
          \/ Arrive(SmokeSignOut, "sign-out", smoke.cookie, None)
      BY <2>6 DEF SmokeSends, SignIn, Carry
    <3> QED
      BY <2>1, <2>4, <3>1, ArriveAnswers DEF SmokeRequests
  <2>7. req' # req
    OBVIOUS
  <2> QED
    BY <2>2, <2>5, <2>6, <2>7
       DEF Next, CommandStep, WebStep, EditStep, CandidateStep, SmokeStep, SmokeStart,
           SmokeReads, SmokeReceives, SmokeTimesOut, web
<1> QED
  BY <1>1, SandboxInvariant, PTL DEF Spec, RetainedKeysHonoured

-----------------------------------------------------------------------------
(* Who has the delivery file                                               *)

Writing == {"user", "account", "commit"}
Writes(c) == cmd[c].kind = "provision" /\ cmd[c].pc \in Writing

\* The file is there, and its run's, for as long as the run holds it.
HoldsFile(c) ==
  /\ cmd[c].created => file = c \/ cmd[c].pc = "1"
  /\ Writes(c) => cmd[c].created

DeliveryInv == \A c \in Command : HoldsFile(c)

LEMMA WritesWithFile ==
  ASSUME DeliveryInv, NEW c \in Command, Writes(c)
  PROVE  cmd[c].created /\ (file = c \/ cmd[c].pc = "1")
<1>1. HoldsFile(c)
  BY DEF DeliveryInv
<1> QED
  BY <1>1 DEF HoldsFile

\* A step that neither takes nor leaves the file.
Leaves(c) ==
  /\ OwnRecord(c) /\ file' = file /\ cmd'[c].created = cmd[c].created
  /\ Writes(c)' => cmd[c].created

LEMMA GoLeaves ==
  ASSUME CommandShape, NEW c \in Command, NEW pc, Go(c, pc), file' = file,
         cmd[c].kind = "provision" /\ pc \in Writing => cmd[c].created
  PROVE  Leaves(c)
BY GoEffect DEF Leaves, Writes

LEMMA DataLeaves ==
  ASSUME CommandShape, NEW c \in Command, DataStep(c)
  PROVE  cmd[c].kind # "provision" /\ (Throw(c) \/ Leaves(c))
<1>1. cmd[c].kind \in {"migrate", "seed", "reset"}
  BY DEF DataStep, Data, At, Migrate, FindTester, CheckRole, ReadAccount, Drop, Replay,
     RestoreUser, RestoreAccount, CommitRestore, GrantUsage, GrantTables, AlterDefaults,
     LockFixtures, InsertDeck, Reconcile, InsertCards, CommitFixtures
<1>2. CASE FindTester(c)
  <2>1. Throw(c) \/ (file' = file /\ \E pc : SetUser(c, user, pc))
    BY <1>2 DEF FindTester, SetUser
  <2> QED
    BY <1>1, <2>1, UserEffect DEF Leaves, Writes
<1>3. CASE ReadAccount(c)
  <2>1. Throw(c) \/ (file' = file /\ SetCredential(c, credential, "drop"))
    BY <1>3 DEF ReadAccount, SetCredential
  <2> QED
    BY <1>1, <2>1, CredentialEffect DEF Leaves, Writes
<1>4. CASE ~FindTester(c) /\ ~ReadAccount(c)
  <2>1. Throw(c) \/ (file' = file /\ \E pc : Go(c, pc))
    BY <1>4 DEF DataStep, Migrate, CheckRole, Drop, Replay,
       RestoreUser, RestoreAccount, CommitRestore, GrantUsage, GrantTables, AlterDefaults,
       LockFixtures, InsertDeck, Reconcile, InsertCards, CommitFixtures
  <2> QED
    BY <1>1, <2>1, GoLeaves
<1> QED
  BY <1>1, <1>2, <1>3, <1>4

Opens(c) == file = None /\ file' = c /\ OwnRecord(c)
Delivers(c) == file' = file /\ OwnRecord(c) /\ ~cmd'[c].created /\ ~Writes(c)'

LEMMA TesterLeaves ==
  ASSUME CommandShape, DeliveryInv, NEW c \in Command, TesterStep(c)
  PROVE  \/ Throw(c) \/ Leaves(c)
         \/ OpenDelivery(c) /\ Opens(c) /\ cmd'[c].created /\ cmd'[c].pc # "0"
         \/ CommitProvision(c) /\ Delivers(c)
<1>1. CASE OpenDelivery(c)
  <2>1. Throw(c) \/ (file = None /\ file' = c /\ SetCreated(c, "user", TRUE))
    BY <1>1 DEF OpenDelivery, SetCreated
  <2>2. CASE file = None /\ file' = c /\ SetCreated(c, "user", TRUE)
    <3>1. OwnRecord(c) /\ cmd'[c].pc = "user" /\ cmd'[c].created = TRUE
      BY <2>2, CreatedEffect
    <3> QED
      BY <1>1, <2>2, <3>1 DEF Opens
  <2> QED
    BY <2>1, <2>2
<1>2. CASE CommitProvision(c)
  <2>1. Throw(c) \/ (file' = file /\ SetCreated(c, "0", FALSE))
    BY <1>2 DEF CommitProvision, SetCreated
  <2>2. CASE file' = file /\ SetCreated(c, "0", FALSE)
    <3>1. OwnRecord(c) /\ cmd'[c].pc = "0" /\ cmd'[c].created = FALSE
      BY <2>2, CreatedEffect
    <3> QED
      BY <1>2, <2>2, <3>1 DEF Delivers, Writes, Writing
  <2> QED
    BY <2>1, <2>2
<1>3. CASE FindForRevoke(c)
  <2>1. /\ cmd[c].kind = "revoke"
        /\ Throw(c) \/ (file' = file /\ \E pc : SetUser(c, user, pc))
    BY <1>3 DEF FindForRevoke, At, SetUser
  <2> QED
    BY <2>1, UserEffect DEF Leaves, Writes
<1>4. CASE Start(c)
  <2>1. \E k, pc : SetKind(c, k, pc) /\ file' = file /\ pc \in {"migrate", "find"}
    BY <1>4 DEF Start, SetKind
  <2> QED
    BY <2>1, KindEffect DEF Leaves, Writes, Writing
<1>5. CASE DeleteAccounts(c) \/ DeleteSessions(c) \/ CommitRevoke(c)
  <2>1. cmd[c].kind = "revoke" /\ (Throw(c) \/ (file' = file /\ \E pc : Go(c, pc)))
    BY <1>5 DEF DeleteAccounts, DeleteSessions, CommitRevoke, At
  <2> QED
    BY <2>1, GoLeaves
<1>6. CASE FindForProvision(c) \/ Fail(c) \/ Kill(c)
  <2>1. Throw(c) \/ (file' = file /\ \E pc \in {"open", "killed"} : Go(c, pc))
    BY <1>6 DEF FindForProvision, Fail, Kill
  <2> QED
    BY <2>1, GoLeaves DEF Writing
<1>7. CASE InsertUser(c) \/ InsertAccount(c)
  <2>1. /\ cmd[c].kind = "provision" /\ cmd[c].pc \in Writing
        /\ Throw(c) \/ (file' = file /\ \E pc : Go(c, pc))
    BY <1>7 DEF InsertUser, InsertAccount, At, Writing
  <2>2. cmd[c].created
    BY <2>1, WritesWithFile DEF Writes
  <2> QED
    BY <2>1, <2>2, GoLeaves
<1> QED
  BY <1>1, <1>2, <1>3, <1>4, <1>5, <1>6, <1>7 DEF TesterStep

\* A run that has ended takes no step any more.
LEMMA EndedStops ==
  ASSUME NEW c \in Command, TesterStep(c) \/ DataStep(c)
  PROVE  cmd[c].pc \notin {"0", "1", "killed"}
<1>1. CASE TesterStep(c)
  BY <1>1 DEF TesterStep, At, FindForProvision, OpenDelivery, InsertUser, InsertAccount,
     CommitProvision, FindForRevoke, DeleteAccounts, DeleteSessions, CommitRevoke, Start,
     Fail, Kill, Running, Ended
<1>2. CASE DataStep(c)
  BY <1>2 DEF DataStep, Data, At, Migrate, FindTester, CheckRole, ReadAccount, Drop, Replay,
     RestoreUser, RestoreAccount, CommitRestore, GrantUsage, GrantTables, AlterDefaults,
     LockFixtures, InsertDeck, Reconcile, InsertCards, CommitFixtures
<1> QED
  BY <1>1, <1>2

LEMMA CommandDelivers ==
  ASSUME CommandShape, DeliveryInv, NEW c \in Command, TesterStep(c) \/ DataStep(c)
  PROVE  DeliveryInv'
<1>0. cmd[c].pc # "1"
  BY EndedStops
<1>1. CASE Throw(c)
  BY <1>0, <1>1, ThrowEffect DEF DeliveryInv, HoldsFile, OwnRecord, Writes, Writing
<1>2. CASE Leaves(c)
  BY <1>0, <1>2 DEF DeliveryInv, HoldsFile, Leaves, OwnRecord, Writes
<1>3. CASE Opens(c) /\ cmd'[c].created
  BY <1>3, SandboxAssumption DEF DeliveryInv, HoldsFile, Opens, OwnRecord, Writes
<1>4. CASE Delivers(c)
  BY <1>4 DEF DeliveryInv, HoldsFile, Delivers, OwnRecord, Writes
<1> QED
  BY <1>1, <1>2, <1>3, <1>4, TesterLeaves, DataLeaves

LEMMA DeliveryInvNext == SandboxInv /\ DeliveryInv /\ [Next]_vars => DeliveryInv'
<1> SUFFICES ASSUME SandboxInv, DeliveryInv, [Next]_vars PROVE DeliveryInv'
  OBVIOUS
<1>1. CASE CommandStep
  BY <1>1, CommandDelivers DEF CommandStep, SandboxInv, OperatorInv
<1>2. CASE UNCHANGED operator
  BY <1>2 DEF operator, DeliveryInv, HoldsFile, Writes
<1> QED
  BY <1>1, <1>2 DEF Next, WebStep, EditStep, TesterEdits, vars

\* The run that holds the file is the one that opened it, until it has delivered
\* or failed (src/scripts/manageSyntheticTester.ts).
THEOREM DeliveryInvariant == Spec => []DeliveryInv
<1>1. Init => DeliveryInv
  BY DEF Init, DeliveryInv, HoldsFile, Writes, Idle, Writing
<1> QED
  BY <1>1, DeliveryInvNext, SandboxInvariant, PTL DEF Spec

LEMMA ProvisionDelivers ==
  ASSUME SandboxInv, DeliveryInv, NEW c \in Command, NEW d \in Command,
         TesterStep(d) \/ DataStep(d),
         cmd[c].kind = "provision", cmd[c].pc # "0", cmd'[c].pc = "0"
  PROVE  file' = c /\ credential' = c /\ user' = c
<1>1. CommandShape
  BY DEF SandboxInv, OperatorInv
<1>2. d = c
  <2>1. OwnRecord(d)
    BY <1>1, DataLeaves, TesterLeaves, ThrowEffect DEF Leaves, Opens, Delivers
  <2> QED
    BY <2>1 DEF OwnRecord
<1>3. ~Throw(c)
  BY <1>1, ThrowEffect
<1>4. TesterStep(c)
  BY <1>1, <1>2, DataLeaves
<1>5. CommitProvision(c)
  <2>1. ~FindForRevoke(c) /\ ~DeleteAccounts(c) /\ ~DeleteSessions(c) /\ ~CommitRevoke(c)
    BY DEF FindForRevoke, DeleteAccounts, DeleteSessions, CommitRevoke, At
  <2>2. ASSUME NEW pc, Go(c, pc) PROVE pc = "0"
    BY <1>1, <2>2, GoEffect
  <2>3. ~FindForProvision(c) /\ ~InsertUser(c) /\ ~InsertAccount(c) /\ ~Fail(c) /\ ~Kill(c)
    BY <1>3, <2>2 DEF FindForProvision, InsertUser, InsertAccount, Fail, Kill
  <2>4. ~OpenDelivery(c)
    BY <1>1, <1>3, CreatedEffect DEF OpenDelivery, SetCreated
  <2>5. ~Start(c)
    <3>1. ASSUME Start(c) PROVE \E k, pc : SetKind(c, k, pc) /\ pc \in {"migrate", "find"}
      BY <3>1 DEF Start, SetKind
    <3> QED
      BY <1>1, <3>1, KindEffect
  <2> QED
    BY <1>4, <2>1, <2>3, <2>4, <2>5 DEF TesterStep
<1>6. Writes(c) /\ file' = file /\ credential' = c /\ user' = c
  BY <1>3, <1>5 DEF CommitProvision, At, Writes, Writing
<1>7. file = c \/ cmd[c].pc = "1"
  BY <1>6, WritesWithFile
<1> QED
  BY <1>2, <1>6, <1>7, EndedStops

\* A provision that exits with 0 has left the password of the account that it
\* committed, under its own name, whatever other runs did meanwhile.
THEOREM AlwaysDelivered == Spec => Delivered
<1>1. SandboxInv /\ DeliveryInv /\ [Next]_vars =>
        [\A c \in Command :
           cmd[c].kind = "provision" /\ cmd[c].pc # "0" /\ cmd'[c].pc = "0" =>
             file' = c /\ credential' = c /\ user' = c]_vars
  <2> SUFFICES ASSUME SandboxInv, DeliveryInv, Next, NEW c \in Command,
                      cmd[c].kind = "provision", cmd[c].pc # "0", cmd'[c].pc = "0"
               PROVE  file' = c /\ credential' = c /\ user' = c
    OBVIOUS
  <2>1. cmd' # cmd
    OBVIOUS
  <2>2. PICK d \in Command : TesterStep(d) \/ DataStep(d)
    BY <2>1 DEF Next, CommandStep, WebStep, EditStep, TesterEdits, operator
  <2> QED
    BY <2>2, ProvisionDelivers
<1> QED
  BY <1>1, SandboxInvariant, DeliveryInvariant, PTL DEF Spec, Delivered

-----------------------------------------------------------------------------
(* The fixtures and what a reset restores                                  *)

Fixing == {"deck", "reconcile", "cards", "commit"}
Restored == {"usage", "grant", "defaults", "lock"} \cup Fixing

\* The transaction on the fixtures, which no reset can interrupt: the deck it
\* holds is the tester's, and no card is in another deck.
OnFixtures(c) ==
  cmd[c].kind \in {"seed", "reset"} /\ cmd[c].pc \in Fixing =>
    /\ "begun" \in tx[c]
    /\ \A k \in Fixture : cards[k] # "foreign"
    /\ "deck" \in tx[c] => user = cmd[c].user /\ deck # Other
    /\ cmd[c].pc \in {"cards", "commit"} => "deck" \in tx[c]

\* What a reset has rebuilt: the tables, the tester with the password it had
\* unless that was revoked since, the rights of the runtime role.
Rebuilt(c) ==
  cmd[c].kind = "reset" =>
    /\ cmd[c].pc \in Rebuilding \cup Restored => tables
    /\ cmd[c].pc \in Restored => user = cmd[c].user /\ credential \in {None, cmd[c].credential}
    /\ cmd[c].pc \in Restored \ {"usage"} => "usage" \in grants
    /\ cmd[c].pc \in Restored \ {"usage", "grant"} => "tables" \in grants

Knows(c) ==
  cmd[c].kind \in {"seed", "reset"} /\ cmd[c].pc \in Resetting \cup Restored =>
    cmd[c].user \in Tester

\* Before it fixes the fixtures, a command holds no row of them.
Unlocked(c) ==
  cmd[c].pc = "idle" \/ (cmd[c].kind \in {"seed", "reset"} /\ cmd[c].pc \notin Fixing) =>
    "deck" \notin tx[c]

CommandOK(c) == Knows(c) /\ OnFixtures(c) /\ Rebuilt(c) /\ Unlocked(c)

RowsOK ==
  /\ user \in Tester \cup {None} /\ deck \in {user, Other, None}
  /\ cards \in [Fixture -> {"absent", "canonical", "edited", "foreign"}]

DataInv == RowsOK /\ \A c \in Command : CommandOK(c)

\* What every step but the drop of a reset does to the rows at most.
Calm ==
  /\ tables => tables'
  /\ grants \subseteq grants'
  /\ user' = user \/ (user = None /\ user' \in Tester)
  /\ credential' \in {credential, None} \/ user = None
  /\ deck' \in {deck, None, user}
  /\ cards' \in [Fixture -> {"absent", "canonical", "edited", "foreign"}]
  /\ \A k \in Fixture : cards'[k] = "foreign" => cards[k] = "foreign"

LEMMA TesterNames == None \notin Tester /\ Other \notin Tester /\ Other # None
BY SandboxAssumption DEF Tester

LEMMA AtRest ==
  ASSUME RowsOK, UNCHANGED schema, UNCHANGED accounts, UNCHANGED fixtures
  PROVE  Calm
BY DEF RowsOK, Calm, schema, accounts, fixtures

LEMMA CalmRows ==
  ASSUME RowsOK, Calm
  PROVE  RowsOK'
BY DEF RowsOK, Calm

LEMMA CalmOthers ==
  ASSUME RowsOK, Calm, NEW c \in Command, CommandOK(c), cmd'[c] = cmd[c], tx'[c] = tx[c]
  PROVE  CommandOK(c)'
<1>1. Knows(c)'
  BY DEF CommandOK, Knows
<1>2. OnFixtures(c)'
  BY TesterNames DEF CommandOK, Knows, OnFixtures, RowsOK, Calm, Restored
<1>3. Rebuilt(c)'
  <2> SUFFICES ASSUME cmd[c].kind = "reset" PROVE Rebuilt(c)'
    BY DEF Rebuilt
  <2>1. cmd[c].pc \in Restored => user # None
    BY TesterNames DEF CommandOK, Knows, Rebuilt
  <2> QED
    BY <2>1 DEF CommandOK, Rebuilt, Calm
<1>4. Unlocked(c)'
  BY DEF CommandOK, Unlocked
<1> QED
  BY <1>1, <1>2, <1>3, <1>4 DEF CommandOK

\* The step of a command.
Steady(c) == OwnRecord(c) /\ OwnRows(c) /\ Calm /\ CommandOK(c)'

LEMMA SteadyKeeps ==
  ASSUME DataInv, NEW c \in Command, Steady(c)
  PROVE  DataInv'
<1>1. \A d \in Command \ {c} : CommandOK(d)'
  BY CalmOthers DEF DataInv, Steady, OwnRecord, OwnRows
<1> QED
  BY <1>1, CalmRows DEF DataInv, Steady

\* Outside the steps a reset and a seed have in between, nothing is to be said.
LEMMA OutsideOK ==
  ASSUME NEW c \in Command,
         cmd'[c].kind \notin {"seed", "reset"} \/ cmd'[c].pc \notin Resetting \cup Restored,
         Unlocked(c)'
  PROVE  CommandOK(c)'
BY DEF CommandOK, Knows, OnFixtures, Rebuilt, Resetting, Restored

LEMMA StepRows ==
  ASSUME CommandShape, NEW c \in Command, TesterStep(c) \/ DataStep(c)
  PROVE  OwnRows(c)
<1>1. ASSUME Throw(c) \/ Release(c) \/ UNCHANGED tx \/ \E rows : Hold(c, rows)
      PROVE  OwnRows(c)
  BY <1>1, ThrowEffect, ReleaseEffect, RowsKept, HoldEffect
<1>2. CASE FindForProvision(c) \/ OpenDelivery(c) \/ InsertUser(c) \/ InsertAccount(c)
           \/ CommitProvision(c) \/ FindForRevoke(c)
  BY <1>1, <1>2 DEF FindForProvision, OpenDelivery, InsertUser, InsertAccount, CommitProvision,
     FindForRevoke
<1>3. CASE DeleteAccounts(c) \/ DeleteSessions(c) \/ CommitRevoke(c) \/ Start(c) \/ Fail(c)
           \/ Kill(c)
  BY <1>1, <1>3 DEF DeleteAccounts, DeleteSessions, CommitRevoke, Start, Fail, Kill, database
<1>4. CASE Migrate(c) \/ FindTester(c) \/ CheckRole(c) \/ ReadAccount(c) \/ Drop(c) \/ Replay(c)
  BY <1>1, <1>4 DEF Migrate, FindTester, CheckRole, ReadAccount, Drop, Replay
<1>5. CASE RestoreUser(c) \/ RestoreAccount(c) \/ CommitRestore(c) \/ GrantUsage(c)
           \/ GrantTables(c) \/ AlterDefaults(c)
  BY <1>1, <1>5 DEF RestoreUser, RestoreAccount, CommitRestore, GrantUsage, GrantTables,
     AlterDefaults
<1>6. CASE LockFixtures(c) \/ InsertDeck(c) \/ Reconcile(c) \/ InsertCards(c) \/ CommitFixtures(c)
  BY <1>1, <1>6 DEF LockFixtures, InsertDeck, Reconcile, InsertCards, CommitFixtures
<1> QED
  BY <1>2, <1>3, <1>4, <1>5, <1>6 DEF TesterStep, DataStep

LEMMA ThrowSteady ==
  ASSUME CommandShape, NEW c \in Command, Throw(c), Calm
  PROVE  Steady(c)
<1>1. cmd'[c].pc \notin Resetting \cup Restored
  BY ThrowEffect DEF Resetting, Rebuilding, Restored, Fixing
<1>2. Unlocked(c)'
  BY ReleaseEffect DEF Throw, Release, Unlocked
<1> QED
  BY <1>1, <1>2, ThrowEffect, OutsideOK DEF Steady

\* A provision or a revocation leaves alone what a reset has restored.
LEMMA TesterSteady ==
  ASSUME OperatorInv, RowsOK, DeliveryInv, NEW c \in Command, Unlocked(c), TesterStep(c)
  PROVE  Steady(c)
<1>1. Calm
  <2>1. CASE CommitProvision(c)
    <3>1. user = None /\ user' = c /\ UNCHANGED schema /\ UNCHANGED fixtures
      BY <2>1, CommitProvisionKeeps DEF CommitProvision
    <3> QED
      BY <3>1 DEF RowsOK, Calm, Tester, schema, fixtures
  <2>2. CASE CommitRevoke(c)
    BY <2>2 DEF CommitRevoke, RowsOK, Calm, schema, fixtures
  <2>3. CASE ~CommitProvision(c) /\ ~CommitRevoke(c)
    <3>1. UNCHANGED schema /\ UNCHANGED accounts /\ UNCHANGED fixtures
      BY <2>3 DEF TesterStep, FindForProvision, OpenDelivery, InsertUser, InsertAccount,
         FindForRevoke, DeleteAccounts, DeleteSessions, Start, Fail, Kill, database
    <3> QED
      BY <3>1, AtRest
  <2> QED
    BY <2>1, <2>2, <2>3
<1>2. CASE Throw(c)
  BY <1>1, <1>2, ThrowSteady DEF OperatorInv
<1>3. CASE ~Throw(c)
  <2>1. OwnRecord(c) /\ OwnRows(c)
    BY <1>3, TesterLeaves, StepRows DEF OperatorInv, Leaves, Opens, Delivers
  <2>2. /\ Unlocked(c)'
        /\ \/ cmd'[c].kind \notin {"seed", "reset"}
           \/ cmd'[c].pc \notin Resetting \cup Restored
    <3>1. CASE Start(c)
      <4>1. PICK k, pc : SetKind(c, k, pc) /\ pc \in {"migrate", "find"}
        BY <3>1 DEF Start, SetKind
      <4>2. "deck" \notin tx'[c]
        BY <3>1 DEF Start, Unlocked, database
      <4> QED
        BY <4>1, <4>2, KindEffect
           DEF OperatorInv, Resetting, Rebuilding, Restored, Fixing, Unlocked
    <3>2. CASE Kill(c)
      <4>1. "deck" \notin tx'[c]
        BY <3>2, ReleaseEffect DEF Kill, OperatorInv
      <4> QED
        BY <3>2, <4>1, GoEffect
           DEF OperatorInv, Kill, Resetting, Rebuilding, Restored, Fixing, Unlocked
    <3>3. CASE ~Start(c) /\ ~Kill(c)
      <4>1. /\ cmd[c].kind \in {"provision", "revoke"}
            /\ \E pc, u :
                 /\ pc # "idle"
                 /\ Go(c, pc) \/ SetCreated(c, pc, u) \/ SetUser(c, u, pc)
        BY <1>3, <3>3 DEF TesterStep, At, SetCreated, SetUser, FindForProvision, OpenDelivery,
           InsertUser, InsertAccount, CommitProvision, FindForRevoke, DeleteAccounts,
           DeleteSessions, CommitRevoke, Fail
      <4>2. cmd'[c].kind \notin {"seed", "reset"} /\ cmd'[c].pc # "idle"
        BY <4>1, GoEffect, CreatedEffect, UserEffect DEF OperatorInv
      <4> QED
        BY <4>2 DEF Unlocked
    <3> QED
      BY <3>1, <3>2, <3>3
  <2> QED
    BY <1>1, <2>1, <2>2, OutsideOK DEF Steady
<1> QED
  BY <1>2, <1>3

LEMMA ThrownAtRest ==
  ASSUME CommandShape, RowsOK, NEW c \in Command, Throw(c),
         UNCHANGED <<schema, accounts, fixtures>>
  PROVE  Steady(c)
BY AtRest, ThrowSteady

\* A step before the fixtures that changes no row: what is rebuilt is still there.
LEMMA MoveSteady ==
  ASSUME DataInv, NEW c \in Command, OwnRecord(c), OwnRows(c), Calm,
         cmd'[c].pc \notin Fixing, "deck" \notin tx'[c], Knows(c)', Rebuilt(c)'
  PROVE  Steady(c)
<1>1. OnFixtures(c)' /\ Unlocked(c)'
  BY DEF OnFixtures, Unlocked
<1> QED
  BY <1>1 DEF Steady, CommandOK

LEMMA MigrateSteady ==
  ASSUME OperatorInv, DataInv, NEW c \in Command, Migrate(c)
  PROVE  Steady(c)
<1>1. PICK pc : /\ cmd[c].kind = "migrate" /\ Go(c, pc) /\ pc \in {"0", "1"}
                /\ DeployOK \/ DeployFails
                /\ UNCHANGED accounts /\ UNCHANGED fixtures /\ UNCHANGED tx
  BY DEF Migrate, At
<1>2. Calm
  <2>1. grants' = grants
    BY <1>1, DeployKeepsGrants DEF OperatorInv
  <2>2. tables => tables'
    BY <1>1 DEF DeployOK, DeployFails
  <2> QED
    BY <1>1, <2>1, <2>2 DEF DataInv, RowsOK, Calm, accounts, fixtures
<1>3. OwnRecord(c) /\ OwnRows(c) /\ cmd'[c].kind = "migrate" /\ cmd'[c].pc = pc
  BY <1>1, GoEffect, RowsKept DEF OperatorInv
<1> QED
  BY <1>1, <1>2, <1>3, OutsideOK DEF Steady, Unlocked

LEMMA FindTesterSteady ==
  ASSUME OperatorInv, DataInv, NEW c \in Command, FindTester(c)
  PROVE  Steady(c)
<1> DEFINE pc == IF cmd[c].kind = "reset" THEN "role" ELSE "lock"
<1>1. /\ cmd[c].kind \in {"seed", "reset"} /\ cmd[c].pc = "find"
      /\ UNCHANGED <<schema, accounts, fixtures>>
      /\ Throw(c) \/ (user # None /\ SetUser(c, user, pc) /\ UNCHANGED tx)
  BY DEF FindTester, Data, SetUser
<1>2. pc \in {"role", "lock"} /\ (cmd[c].kind = "reset" => pc = "role")
  OBVIOUS
<1> HIDE DEF pc
<1>3. CASE user # None /\ SetUser(c, user, pc) /\ UNCHANGED tx
  <2>1. /\ OwnRecord(c) /\ OwnRows(c) /\ cmd'[c].kind = cmd[c].kind
        /\ cmd'[c].pc = pc /\ cmd'[c].user = user
    BY <1>3, UserEffect, RowsKept DEF OperatorInv
  <2>2. Calm /\ user \in Tester /\ "deck" \notin tx'[c]
    BY <1>1, <1>3, AtRest DEF DataInv, RowsOK, CommandOK, Unlocked, Fixing
  <2>3. Knows(c)' /\ Rebuilt(c)'
    BY <1>2, <2>1, <2>2 DEF Knows, Rebuilt, Resetting, Rebuilding, Restored, Fixing
  <2>4. cmd'[c].pc \notin Fixing
    BY <1>2, <2>1 DEF Fixing
  <2> QED
    BY <2>1, <2>2, <2>3, <2>4, MoveSteady
<1> QED
  BY <1>1, <1>3, ThrownAtRest DEF OperatorInv, DataInv

\* A call of a reset that changes no row: nothing yet is rebuilt, or the same.
LEMMA CheckRoleSteady ==
  ASSUME OperatorInv, DataInv, NEW c \in Command, CheckRole(c)
  PROVE  Steady(c)
<1>1. /\ cmd[c].kind \in {"seed", "reset"} /\ cmd[c].pc = "role"
      /\ UNCHANGED <<schema, accounts, fixtures>>
      /\ Throw(c) \/ (Go(c, "read") /\ UNCHANGED tx)
  BY DEF CheckRole, Data
<1>2. CASE Go(c, "read") /\ UNCHANGED tx
  <2>1. /\ OwnRecord(c) /\ OwnRows(c) /\ cmd'[c].kind = cmd[c].kind
        /\ cmd'[c].pc = "read" /\ SameFound(c)
    BY <1>2, GoEffect, RowsKept DEF OperatorInv
  <2>2. Calm /\ cmd[c].user \in Tester /\ "deck" \notin tx'[c]
    BY <1>1, <1>2, AtRest DEF DataInv, CommandOK, Knows, Resetting, Unlocked, Fixing
  <2>3. Knows(c)' /\ Rebuilt(c)' /\ cmd'[c].pc \notin Fixing
    BY <2>1, <2>2 DEF Knows, Rebuilt, SameFound, Rebuilding, Restored, Fixing
  <2> QED
    BY <2>1, <2>2, <2>3, MoveSteady
<1> QED
  BY <1>1, <1>2, ThrownAtRest DEF OperatorInv, DataInv

LEMMA ReadAccountSteady ==
  ASSUME OperatorInv, DataInv, NEW c \in Command, ReadAccount(c)
  PROVE  Steady(c)
<1>1. /\ cmd[c].kind \in {"seed", "reset"} /\ cmd[c].pc = "read"
      /\ UNCHANGED <<schema, accounts, fixtures>>
      /\ Throw(c) \/ (SetCredential(c, credential, "drop") /\ UNCHANGED tx)
  BY DEF ReadAccount, Data, SetCredential
<1>2. CASE SetCredential(c, credential, "drop") /\ UNCHANGED tx
  <2>1. /\ OwnRecord(c) /\ OwnRows(c) /\ cmd'[c].kind = cmd[c].kind
        /\ cmd'[c].pc = "drop" /\ cmd'[c].user = cmd[c].user
    BY <1>2, CredentialEffect, RowsKept DEF OperatorInv
  <2>2. Calm /\ cmd[c].user \in Tester /\ "deck" \notin tx'[c]
    BY <1>1, <1>2, AtRest DEF DataInv, CommandOK, Knows, Resetting, Unlocked, Fixing
  <2>3. Knows(c)' /\ Rebuilt(c)' /\ cmd'[c].pc \notin Fixing
    BY <2>1, <2>2 DEF Knows, Rebuilt, Rebuilding, Restored, Fixing
  <2> QED
    BY <2>1, <2>2, <2>3, MoveSteady
<1> QED
  BY <1>1, <1>2, ThrownAtRest DEF OperatorInv, DataInv

LEMMA ReplaySteady ==
  ASSUME OperatorInv, DataInv, NEW c \in Command, Replay(c)
  PROVE  Steady(c)
<1>1. /\ cmd[c].kind \in {"seed", "reset"} /\ cmd[c].pc = "replay"
      /\ UNCHANGED accounts /\ UNCHANGED fixtures
      /\ \/ DeployOK /\ Go(c, "restoreUser") /\ UNCHANGED tx
         \/ DeployFails /\ Throw(c)
  BY DEF Replay, Data
<1>2. Calm
  <2>1. grants' = grants
    BY <1>1, DeployKeepsGrants DEF OperatorInv
  <2>2. tables => tables'
    BY <1>1 DEF DeployOK, DeployFails
  <2> QED
    BY <1>1, <2>1, <2>2 DEF DataInv, RowsOK, Calm, accounts, fixtures
<1>3. CASE DeployOK /\ Go(c, "restoreUser") /\ UNCHANGED tx
  <2>1. /\ OwnRecord(c) /\ OwnRows(c) /\ cmd'[c].kind = cmd[c].kind
        /\ cmd'[c].pc = "restoreUser" /\ SameFound(c) /\ tables'
    BY <1>3, GoEffect, RowsKept DEF OperatorInv, DeployOK
  <2>2. cmd[c].user \in Tester /\ "deck" \notin tx'[c]
    BY <1>1, <1>3 DEF DataInv, CommandOK, Knows, Resetting, Unlocked, Fixing
  <2>3. Knows(c)' /\ Rebuilt(c)' /\ cmd'[c].pc \notin Fixing
    BY <2>1, <2>2 DEF Knows, Rebuilt, SameFound, Restored, Fixing
  <2> QED
    BY <1>2, <2>1, <2>2, <2>3, MoveSteady
<1> QED
  BY <1>1, <1>2, <1>3, ThrowSteady DEF OperatorInv

LEMMA RestoreUserSteady ==
  ASSUME OperatorInv, DataInv, NEW c \in Command, RestoreUser(c)
  PROVE  Steady(c)
<1>1. /\ cmd[c].kind \in {"seed", "reset"} /\ cmd[c].pc = "restoreUser"
      /\ UNCHANGED <<schema, accounts, fixtures>>
      /\ Throw(c) \/ (tables /\ Go(c, "restoreAccount") /\ Hold(c, {"user"}))
  BY DEF RestoreUser, Data
<1>2. CASE tables /\ Go(c, "restoreAccount") /\ Hold(c, {"user"})
  <2>1. /\ OwnRecord(c) /\ OwnRows(c) /\ cmd'[c].kind = cmd[c].kind
        /\ cmd'[c].pc = "restoreAccount" /\ SameFound(c)
        /\ tx'[c] = tx[c] \cup {"begun", "user"}
    BY <1>2, GoEffect, HoldEffect DEF OperatorInv
  <2>2. Calm /\ cmd[c].user \in Tester /\ "deck" \notin tx'[c] /\ tables'
    BY <1>1, <1>2, <2>1, AtRest
       DEF DataInv, CommandOK, Knows, Resetting, Rebuilding, Unlocked, Fixing, schema
  <2>3. Knows(c)' /\ Rebuilt(c)' /\ cmd'[c].pc \notin Fixing
    BY <2>1, <2>2 DEF Knows, Rebuilt, SameFound, Restored, Fixing
  <2> QED
    BY <2>1, <2>2, <2>3, MoveSteady
<1> QED
  BY <1>1, <1>2, ThrownAtRest DEF OperatorInv, DataInv

LEMMA RestoreAccountSteady ==
  ASSUME OperatorInv, DataInv, NEW c \in Command, RestoreAccount(c)
  PROVE  Steady(c)
<1>1. /\ cmd[c].kind = "reset" /\ cmd[c].pc = "restoreAccount"
      /\ UNCHANGED <<schema, accounts, fixtures>>
      /\ Go(c, "commitRestore") /\ Hold(c, {"account"})
  BY DEF RestoreAccount, Data, OperatorInv, HistoryKept, Resetting, Rebuilding
<1>2. /\ OwnRecord(c) /\ OwnRows(c) /\ cmd'[c].kind = cmd[c].kind
      /\ cmd'[c].pc = "commitRestore" /\ SameFound(c)
      /\ tx'[c] = tx[c] \cup {"begun", "account"}
  BY <1>1, GoEffect, HoldEffect DEF OperatorInv
<1>3. /\ Calm /\ cmd[c].user \in Tester /\ "deck" \notin tx'[c] /\ tables'
  BY <1>1, <1>2, AtRest
     DEF DataInv, CommandOK, Knows, Rebuilt, Resetting, Rebuilding, Unlocked, Fixing, schema
<1>4. Knows(c)' /\ Rebuilt(c)' /\ cmd'[c].pc \notin Fixing
  BY <1>2, <1>3 DEF Knows, Rebuilt, SameFound, Restored, Fixing
<1> QED
  BY <1>2, <1>3, <1>4, MoveSteady

LEMMA CommitRestoreSteady ==
  ASSUME OperatorInv, DataInv, NEW c \in Command, CommitRestore(c)
  PROVE  Steady(c)
<1>1. /\ cmd[c].kind = "reset" /\ cmd[c].pc = "commitRestore" /\ user = None
      /\ user' = cmd[c].user /\ credential' = cmd[c].credential
      /\ UNCHANGED schema /\ UNCHANGED fixtures /\ Go(c, "usage") /\ Release(c)
  BY CommitRestoreKeeps
     DEF CommitRestore, Data, OperatorInv, HistoryKept, Resetting, Rebuilding
<1>2. /\ OwnRecord(c) /\ OwnRows(c) /\ cmd'[c].kind = cmd[c].kind
      /\ cmd'[c].pc = "usage" /\ SameFound(c) /\ tx'[c] = {}
  BY <1>1, GoEffect, ReleaseEffect DEF OperatorInv
<1>3. cmd[c].user \in Tester /\ tables'
  BY <1>1 DEF DataInv, CommandOK, Knows, Rebuilt, Resetting, Rebuilding, schema
<1>4. Calm
  BY <1>1, <1>3 DEF DataInv, RowsOK, Calm, schema, fixtures
<1>5. Knows(c)' /\ Rebuilt(c)' /\ cmd'[c].pc \notin Fixing
  BY <1>1, <1>2, <1>3 DEF Knows, Rebuilt, SameFound, Restored, Fixing
<1> QED
  BY <1>2, <1>4, <1>5, MoveSteady

LEMMA GrantUsageSteady ==
  ASSUME OperatorInv, DataInv, NEW c \in Command, GrantUsage(c)
  PROVE  Steady(c)
<1>1. /\ cmd[c].kind = "reset" /\ cmd[c].pc = "usage" /\ grants' = grants \cup {"usage"}
      /\ UNCHANGED <<tables, accounts, fixtures, tx>> /\ Go(c, "grant")
  BY DEF GrantUsage, Data, OperatorInv, HistoryKept, Resetting, Rebuilding
<1>2. /\ OwnRecord(c) /\ OwnRows(c) /\ cmd'[c].kind = cmd[c].kind
      /\ cmd'[c].pc = "grant" /\ SameFound(c)
  BY <1>1, GoEffect, RowsKept DEF OperatorInv
<1>3. Calm
  BY <1>1 DEF DataInv, RowsOK, Calm, accounts, fixtures
<1>4. /\ cmd[c].user \in Tester /\ "deck" \notin tx'[c]
      /\ tables' /\ user' = cmd[c].user /\ credential' \in {None, cmd[c].credential}
  BY <1>1 DEF DataInv, CommandOK, Knows, Rebuilt, Restored, Unlocked, Fixing, accounts
<1>5. Knows(c)' /\ Rebuilt(c)' /\ cmd'[c].pc \notin Fixing
  BY <1>1, <1>2, <1>4 DEF Knows, Rebuilt, SameFound, Restored, Fixing
<1> QED
  BY <1>2, <1>3, <1>4, <1>5, MoveSteady

LEMMA GrantTablesSteady ==
  ASSUME OperatorInv, DataInv, NEW c \in Command, GrantTables(c)
  PROVE  Steady(c)
<1>1. /\ cmd[c].kind = "reset" /\ cmd[c].pc = "grant"
      /\ UNCHANGED <<tables, accounts, fixtures>>
      /\ grants' = IF tables THEN grants \cup {"tables"} ELSE grants
      /\ Throw(c) \/ (tables /\ UNCHANGED tx /\ Go(c, "defaults"))
  BY DEF GrantTables, Data, OperatorInv, HistoryKept, Resetting, Rebuilding
<1>2. Calm
  BY <1>1 DEF DataInv, RowsOK, Calm, accounts, fixtures
<1>3. CASE tables /\ UNCHANGED tx /\ Go(c, "defaults")
  <2>1. /\ OwnRecord(c) /\ OwnRows(c) /\ cmd'[c].kind = cmd[c].kind
        /\ cmd'[c].pc = "defaults" /\ SameFound(c)
    BY <1>3, GoEffect, RowsKept DEF OperatorInv
  <2>2. /\ cmd[c].user \in Tester /\ "deck" \notin tx'[c]
        /\ tables' /\ user' = cmd[c].user /\ credential' \in {None, cmd[c].credential}
        /\ {"usage", "tables"} \subseteq grants'
    BY <1>1, <1>3 DEF DataInv, CommandOK, Knows, Rebuilt, Restored, Unlocked, Fixing, accounts
  <2>3. Knows(c)' /\ Rebuilt(c)' /\ cmd'[c].pc \notin Fixing
    BY <2>1, <2>2 DEF Knows, Rebuilt, SameFound, Restored, Fixing
  <2> QED
    BY <1>2, <2>1, <2>2, <2>3, MoveSteady
<1> QED
  BY <1>1, <1>2, <1>3, ThrowSteady DEF OperatorInv

LEMMA AlterDefaultsSteady ==
  ASSUME OperatorInv, DataInv, NEW c \in Command, AlterDefaults(c)
  PROVE  Steady(c)
<1>1. /\ cmd[c].kind = "reset" /\ cmd[c].pc = "defaults" /\ grants' = grants \cup {"defaults"}
      /\ UNCHANGED <<tables, accounts, fixtures, tx>> /\ Go(c, "lock")
  BY DEF AlterDefaults, Data, OperatorInv, HistoryKept, Resetting, Rebuilding
<1>2. /\ OwnRecord(c) /\ OwnRows(c) /\ cmd'[c].kind = cmd[c].kind
      /\ cmd'[c].pc = "lock" /\ SameFound(c)
  BY <1>1, GoEffect, RowsKept DEF OperatorInv
<1>3. Calm
  BY <1>1 DEF DataInv, RowsOK, Calm, accounts, fixtures
<1>4. /\ cmd[c].user \in Tester /\ "deck" \notin tx'[c]
      /\ tables' /\ user' = cmd[c].user /\ credential' \in {None, cmd[c].credential}
      /\ {"usage", "tables"} \subseteq grants'
  BY <1>1 DEF DataInv, CommandOK, Knows, Rebuilt, Restored, Unlocked, Fixing, accounts
<1>5. Knows(c)' /\ Rebuilt(c)' /\ cmd'[c].pc \notin Fixing
  BY <1>2, <1>4 DEF Knows, Rebuilt, SameFound, Fixing
<1> QED
  BY <1>2, <1>3, <1>4, <1>5, MoveSteady

\* A step of the transaction on the fixtures that changes no committed row.
LEMMA FixingSteady ==
  ASSUME DataInv, NEW c \in Command, OwnRecord(c), OwnRows(c),
         cmd[c].kind \in {"seed", "reset"}, cmd[c].pc \in {"lock"} \cup Fixing,
         cmd'[c].kind = cmd[c].kind, cmd'[c].pc \in Fixing, SameFound(c),
         UNCHANGED schema, UNCHANGED accounts, UNCHANGED fixtures, OnFixtures(c)'
  PROVE  Steady(c)
<1>1. Calm
  BY AtRest DEF DataInv
<1>2. Knows(c)'
  BY DEF DataInv, CommandOK, Knows, SameFound, Restored
<1>3. Rebuilt(c)'
  BY DEF DataInv, CommandOK, Rebuilt, SameFound, Restored, Fixing, Rebuilding, schema, accounts
<1>4. Unlocked(c)'
  BY DEF Unlocked, Fixing
<1> QED
  BY <1>1, <1>2, <1>3, <1>4 DEF Steady, CommandOK

LEMMA LockFixturesSteady ==
  ASSUME OperatorInv, DataInv, NEW c \in Command, LockFixtures(c)
  PROVE  Steady(c)
<1>1. PICK rows :
        /\ rows = Present \cup PresentCards
        /\ cmd[c].kind \in {"seed", "reset"} /\ cmd[c].pc = "lock"
        /\ UNCHANGED <<schema, accounts, fixtures>>
        /\ \/ Throw(c)
           \/ /\ deck \in {None, cmd[c].user} /\ ~Foreign
              /\ Go(c, "deck") /\ Hold(c, rows)
  BY DEF LockFixtures, Data
<1>2. CASE /\ deck \in {None, cmd[c].user} /\ ~Foreign
           /\ Go(c, "deck") /\ Hold(c, rows)
  <2>1. /\ OwnRecord(c) /\ OwnRows(c) /\ cmd'[c].kind = cmd[c].kind
        /\ cmd'[c].pc = "deck" /\ SameFound(c)
        /\ tx'[c] = tx[c] \cup {"begun"} \cup rows
    BY <1>2, GoEffect, HoldEffect DEF OperatorInv
  <2>2. cmd[c].user \in Tester /\ "deck" \notin tx[c]
    BY <1>1 DEF DataInv, CommandOK, Knows, Restored, Unlocked, Fixing
  <2>3. "deck" \in rows => deck # None
    BY <1>1, SandboxAssumption DEF Present, PresentCards
  <2>4. deck # Other /\ ("deck" \in tx'[c] => user = cmd[c].user)
    BY <1>2, <2>1, <2>2, <2>3, TesterNames DEF DataInv, RowsOK
  <2>5. OnFixtures(c)'
    BY <1>1, <1>2, <2>1, <2>4
       DEF OnFixtures, Foreign, SameFound, accounts, fixtures
  <2> QED
    BY <1>1, <2>1, <2>5, FixingSteady DEF Fixing
<1> QED
  BY <1>1, <1>2, ThrownAtRest DEF OperatorInv, DataInv

LEMMA InsertDeckSteady ==
  ASSUME OperatorInv, DataInv, NEW c \in Command, InsertDeck(c)
  PROVE  Steady(c)
<1>1. PICK rows :
        /\ rows = IF deck = None THEN {"deck"} ELSE {}
        /\ cmd[c].kind \in {"seed", "reset"} /\ cmd[c].pc = "deck"
        /\ UNCHANGED <<schema, accounts, fixtures>>
        /\ \/ Throw(c)
           \/ /\ deck # None \/ user = cmd[c].user
              /\ Go(c, "reconcile") /\ Hold(c, rows)
  BY DEF InsertDeck, Data
<1>2. CASE /\ deck # None \/ user = cmd[c].user
           /\ Go(c, "reconcile") /\ Hold(c, rows)
  <2>1. /\ OwnRecord(c) /\ OwnRows(c) /\ cmd'[c].kind = cmd[c].kind
        /\ cmd'[c].pc = "reconcile" /\ SameFound(c)
        /\ tx'[c] = tx[c] \cup {"begun"} \cup rows
    BY <1>2, GoEffect, HoldEffect DEF OperatorInv
  <2>2. /\ \A k \in Fixture : cards[k] # "foreign"
        /\ "deck" \in tx[c] => user = cmd[c].user /\ deck # Other
    BY <1>1 DEF DataInv, CommandOK, OnFixtures, Fixing
  <2>3. "deck" \in tx'[c] => user = cmd[c].user /\ deck # Other
    BY <1>1, <1>2, <2>1, <2>2, TesterNames
  <2>4. OnFixtures(c)'
    BY <1>1, <2>1, <2>2, <2>3 DEF OnFixtures, SameFound, accounts, fixtures
  <2> QED
    BY <1>1, <2>1, <2>4, FixingSteady DEF Fixing
<1> QED
  BY <1>1, <1>2, ThrownAtRest DEF OperatorInv, DataInv

LEMMA ReconcileSteady ==
  ASSUME OperatorInv, DataInv, NEW c \in Command, Reconcile(c)
  PROVE  Steady(c)
<1>1. /\ cmd[c].kind \in {"seed", "reset"} /\ cmd[c].pc = "reconcile"
      /\ UNCHANGED <<schema, accounts, fixtures>>
      /\ \/ Throw(c)
         \/ /\ "deck" \in tx[c] \/ deck = cmd[c].user
            /\ Go(c, "cards") /\ Hold(c, {"deck"})
  BY DEF Reconcile, Data
<1>2. CASE /\ "deck" \in tx[c] \/ deck = cmd[c].user
           /\ Go(c, "cards") /\ Hold(c, {"deck"})
  <2>1. /\ OwnRecord(c) /\ OwnRows(c) /\ cmd'[c].kind = cmd[c].kind
        /\ cmd'[c].pc = "cards" /\ SameFound(c)
        /\ tx'[c] = tx[c] \cup {"begun"} \cup {"deck"}
    BY <1>2, GoEffect, HoldEffect DEF OperatorInv
  <2>2. /\ \A k \in Fixture : cards[k] # "foreign"
        /\ "deck" \in tx[c] => user = cmd[c].user /\ deck # Other
        /\ cmd[c].user \in Tester
    BY <1>1 DEF DataInv, CommandOK, OnFixtures, Knows, Restored, Fixing
  <2>3. user = cmd[c].user /\ deck # Other
    BY <1>2, <2>2, TesterNames DEF DataInv, RowsOK
  <2>4. OnFixtures(c)'
    BY <1>1, <2>1, <2>2, <2>3 DEF OnFixtures, SameFound, accounts, fixtures
  <2> QED
    BY <1>1, <2>1, <2>4, FixingSteady DEF Fixing
<1> QED
  BY <1>1, <1>2, ThrownAtRest DEF OperatorInv, DataInv

LEMMA InsertCardsSteady ==
  ASSUME OperatorInv, DataInv, NEW c \in Command, InsertCards(c)
  PROVE  Steady(c)
<1>1. PICK rows :
        /\ cmd[c].kind \in {"seed", "reset"} /\ cmd[c].pc = "cards"
        /\ UNCHANGED <<schema, accounts, fixtures>>
        /\ Go(c, "commit") /\ Hold(c, rows)
  BY DEF InsertCards, Data
<1>2. /\ OwnRecord(c) /\ OwnRows(c) /\ cmd'[c].kind = cmd[c].kind
      /\ cmd'[c].pc = "commit" /\ SameFound(c)
      /\ tx'[c] = tx[c] \cup {"begun"} \cup rows
  BY <1>1, GoEffect, HoldEffect DEF OperatorInv
<1>3. /\ \A k \in Fixture : cards[k] # "foreign"
      /\ "deck" \in tx[c] /\ user = cmd[c].user /\ deck # Other
  BY <1>1 DEF DataInv, CommandOK, OnFixtures, Fixing
<1>4. OnFixtures(c)'
  BY <1>1, <1>2, <1>3 DEF OnFixtures, SameFound, accounts, fixtures
<1> QED
  BY <1>1, <1>2, <1>4, FixingSteady DEF Fixing

LEMMA CommitFixturesSteady ==
  ASSUME OperatorInv, DataInv, NEW c \in Command, CommitFixtures(c)
  PROVE  Steady(c)
<1>1. /\ cmd[c].kind \in {"seed", "reset"} /\ cmd[c].pc = "commit"
      /\ UNCHANGED schema /\ UNCHANGED accounts
      /\ deck' = IF deck = None THEN cmd[c].user ELSE deck
      /\ cards' = [k \in Fixture |->
           IF k \in tx[c] /\ cards[k] = "absent" THEN "canonical" ELSE cards[k]]
      /\ Throw(c) \/ (Go(c, "0") /\ Release(c))
  BY DEF CommitFixtures, Data
<1>2. user = cmd[c].user
  BY <1>1 DEF DataInv, CommandOK, OnFixtures, Fixing
<1>3. Calm
  BY <1>1, <1>2 DEF DataInv, RowsOK, Calm, schema, accounts
<1>4. CASE Go(c, "0") /\ Release(c)
  <2>1. OwnRecord(c) /\ OwnRows(c) /\ cmd'[c].pc = "0" /\ tx'[c] = {}
    BY <1>4, GoEffect, ReleaseEffect DEF OperatorInv
  <2>2. cmd'[c].pc \notin Resetting \cup Restored /\ Unlocked(c)'
    BY <2>1 DEF Resetting, Rebuilding, Restored, Fixing, Unlocked
  <2> QED
    BY <1>3, <2>1, <2>2, OutsideOK DEF Steady
<1> QED
  BY <1>1, <1>3, <1>4, ThrowSteady DEF OperatorInv

\* The schema is dropped when no transaction is open, by the only reset under way.
LEMMA DropKeepsData ==
  ASSUME OperatorInv, DataInv, NEW c \in Command, Drop(c), OneReset
  PROVE  DataInv'
<1>1. /\ cmd[c].pc = "drop" /\ Go(c, "replay") /\ tx' = tx
      /\ \A o \in Command : tx[o] = {}
      /\ user' = None /\ deck' = None /\ cards' = [k \in Fixture |-> "absent"]
  BY DEF Drop, Data, DropSchema
<1>2. cmd[c].kind = "reset"
  BY <1>1 DEF OperatorInv, HistoryKept, Resetting
<1>3. /\ OwnRecord(c) /\ cmd'[c].pc = "replay" /\ cmd'[c].kind = "reset" /\ SameFound(c)
  BY <1>1, <1>2, GoEffect DEF OperatorInv
<1>4. \A d \in Command \ {c} :
        cmd[d].kind = "reset" => cmd[d].pc \notin Rebuilding \cup Restored
  BY <1>3
     DEF OneReset, Resets, Running, Ended, OwnRecord, Rebuilding, Restored, Fixing
<1>5. RowsOK'
  BY <1>1 DEF RowsOK
<1>6. ASSUME NEW d \in Command PROVE CommandOK(d)'
  <2>1. Knows(d)'
    BY <1>1, <1>2, <1>3 DEF DataInv, CommandOK, Knows, OwnRecord, SameFound, Resetting
  <2>2. cmd[d].kind \in {"seed", "reset"} => cmd[d].pc \notin Fixing
    BY <1>1 DEF DataInv, CommandOK, OnFixtures
  <2>3. OnFixtures(d)'
    BY <1>3, <2>2 DEF OnFixtures, OwnRecord, Fixing
  <2>4. Rebuilt(d)'
    BY <1>3, <1>4 DEF Rebuilt, OwnRecord, Rebuilding, Restored, Fixing
  <2>5. Unlocked(d)'
    BY <1>1 DEF Unlocked
  <2> QED
    BY <2>1, <2>3, <2>4, <2>5 DEF CommandOK
<1> QED
  BY <1>5, <1>6 DEF DataInv

\* No step of a command but the drop takes away tables, rights or a tester.
LEMMA CommandCalm ==
  ASSUME OperatorInv, DataInv, DeliveryInv, NEW c \in Command,
         TesterStep(c) \/ DataStep(c), ~Drop(c)
  PROVE  Steady(c) /\ Calm
<1>1. ASSUME TesterStep(c) PROVE Steady(c)
  BY <1>1, TesterSteady DEF DataInv, CommandOK
<1>2. ASSUME DataStep(c) PROVE Steady(c)
  BY <1>2, MigrateSteady, FindTesterSteady, CheckRoleSteady, ReadAccountSteady,
     ReplaySteady, RestoreUserSteady, RestoreAccountSteady, CommitRestoreSteady,
     GrantUsageSteady, GrantTablesSteady, AlterDefaultsSteady, LockFixturesSteady,
     InsertDeckSteady, ReconcileSteady, InsertCardsSteady, CommitFixturesSteady
     DEF DataStep
<1> QED
  BY <1>1, <1>2 DEF Steady

LEMMA CommandKeepsData ==
  ASSUME OperatorInv, DataInv, DeliveryInv, CommandStep
  PROVE  DataInv'
<1>1. PICK c \in Command : (TesterStep(c) \/ DataStep(c)) /\ OneReset
  BY DEF CommandStep
<1> QED
  BY <1>1, DropKeepsData, CommandCalm, SteadyKeeps

\* The web, the tester and a starting candidate run no command.
LEMMA OutsideKeepsData ==
  ASSUME DataInv, Calm, UNCHANGED <<cmd, tx>>
  PROVE  DataInv'
<1>1. \A c \in Command : CommandOK(c)'
  BY CalmOthers DEF DataInv
<1> QED
  BY <1>1, CalmRows DEF DataInv

LEMMA RequestRows ==
  ASSUME NEW r \in Request, RequestStep(r)
  PROVE  UNCHANGED schema /\ UNCHANGED fixtures /\ UNCHANGED <<user, credential, tx>>
BY DEF RequestStep, VerifyPassword, Mint, Hook, Purge, GetSession, CustomSession, SignOut,
   database, accounts, schema, fixtures

LEMMA DataInvNext == SandboxInv /\ DeliveryInv /\ DataInv /\ [Next]_vars => DataInv'
<1> SUFFICES ASSUME SandboxInv, DeliveryInv, DataInv, [Next]_vars PROVE DataInv'
  OBVIOUS
<1>1. CASE CommandStep
  BY <1>1, CommandKeepsData DEF SandboxInv
<1>2. CASE UNCHANGED <<cmd, tx>> /\ Calm
  BY <1>2, OutsideKeepsData
<1>3. CASE WebStep
  <2>1. UNCHANGED schema /\ UNCHANGED fixtures /\ UNCHANGED <<user, credential, tx, cmd>>
    BY <1>3, RequestRows DEF WebStep, Browse, operator, database, accounts
  <2> QED
    BY <1>2, <2>1 DEF DataInv, RowsOK, Calm, schema, fixtures
<1>4. CASE EditStep
  <2>1. /\ UNCHANGED schema /\ UNCHANGED accounts /\ UNCHANGED <<tx, cmd>>
        /\ \/ /\ deck' = deck
              /\ \E k \in Fixture, to \in {"edited", "absent"} : cards' = [cards EXCEPT ![k] = to]
           \/ deck' = None /\ cards' = cards
    BY <1>4 DEF EditStep, TesterEdits, operator
  <2>2. Calm
    BY <2>1 DEF DataInv, RowsOK, Calm, schema, accounts
  <2> QED
    BY <1>2, <2>1, <2>2
<1>5. CASE CandidateStep /\ UNCHANGED operator
  <2>1. /\ UNCHANGED accounts /\ UNCHANGED fixtures /\ UNCHANGED <<tx, cmd>>
        /\ UNCHANGED schema \/ DeployOK \/ DeployFails
    BY <1>5 DEF CandidateStep, Deploy, CheckDirect, MigrateDeploy, ExecServer, operator
  <2>2. (UNCHANGED schema) => (tables' = tables /\ grants' = grants)
    BY DEF schema
  <2>3. grants' = grants
    BY <2>1, <2>2, DeployKeepsGrants DEF SandboxInv, OperatorInv
  <2>4. tables => tables'
    BY <2>1, <2>2 DEF DeployOK, DeployFails
  <2>5. Calm
    BY <2>1, <2>3, <2>4 DEF DataInv, RowsOK, Calm, accounts, fixtures
  <2> QED
    BY <1>2, <2>1, <2>5
<1>6. CASE (SmokeStep /\ UNCHANGED operator) \/ UNCHANGED vars
  <2>1. UNCHANGED schema /\ UNCHANGED accounts /\ UNCHANGED fixtures /\ UNCHANGED <<cmd, tx>>
    BY <1>6 DEF SmokeStep, vars, operator, database
  <2> QED
    BY <1>2, <2>1, AtRest DEF DataInv
<1> QED
  BY <1>1, <1>3, <1>4, <1>5, <1>6 DEF Next

LEMMA DataInvInit == Init => DataInv
<1> SUFFICES ASSUME Init PROVE DataInv
  OBVIOUS
<1>1. RowsOK
  BY DEF Init, RowsOK, Tester
<1>2. ASSUME NEW c \in Command PROVE CommandOK(c)
  <2>1. cmd[c] = Idle /\ tx[c] = {}
    BY DEF Init
  <2> QED
    BY <2>1 DEF CommandOK, Knows, OnFixtures, Rebuilt, Unlocked, Idle, Resetting, Rebuilding,
       Restored, Fixing
<1> QED
  BY <1>1, <1>2 DEF DataInv

\* What a seed and a reset rely on while they run holds whatever other commands,
\* requests, edits and deployments do (src/scripts/sandbox-data.mjs).
THEOREM DataInvariant == Spec => []DataInv
BY DataInvInit, DataInvNext, SandboxInvariant, DeliveryInvariant, PTL DEF Spec

-----------------------------------------------------------------------------
(* What a seed and a reset leave behind                                    *)

LEMMA EndsInCommit ==
  ASSUME OperatorInv, DeliveryInv, NEW c \in Command, NEW d \in Command,
         TesterStep(d) \/ DataStep(d),
         cmd[c].kind \in {"seed", "reset"}, cmd[c].pc # "0", cmd'[c].pc = "0"
  PROVE  c = d /\ CommitFixtures(c)
<1>1. c = d
  <2>1. OwnRecord(d)
    BY DataLeaves, TesterLeaves, ThrowEffect DEF OperatorInv, Leaves, Opens, Delivers
  <2> QED
    BY <2>1 DEF OwnRecord
<1>2. ASSUME Throw(c) PROVE FALSE
  BY <1>2, ThrowEffect DEF OperatorInv
<1>3. ASSUME NEW pc, Go(c, pc) PROVE pc = "0"
  BY <1>3, GoEffect DEF OperatorInv
<1>4. ASSUME TesterStep(c) PROVE FALSE
  <2>1. Start(c) \/ Kill(c)
    BY <1>2, <1>4 DEF TesterStep, At, FindForProvision, OpenDelivery, InsertUser, InsertAccount,
       CommitProvision, FindForRevoke, DeleteAccounts, DeleteSessions, CommitRevoke, Fail
  <2>2. ~Kill(c)
    BY <1>3 DEF Kill
  <2>3. ASSUME Start(c) PROVE \E k, pc : SetKind(c, k, pc) /\ pc \in {"migrate", "find"}
    BY <2>3 DEF Start, SetKind
  <2> QED
    BY <2>1, <2>2, <2>3, KindEffect DEF OperatorInv
<1>5. DataStep(c)
  BY <1>1, <1>4
<1>6. ~Migrate(c) /\ ~FindTester(c) /\ ~ReadAccount(c)
  <2>1. ~Migrate(c)
    BY DEF Migrate, At
  <2>2. ASSUME FindTester(c)
        PROVE  \E pc : SetUser(c, user, pc) /\ pc \in {"role", "lock"}
    BY <1>2, <2>2 DEF FindTester, SetUser
  <2>3. ~FindTester(c)
    BY <2>2, UserEffect DEF OperatorInv
  <2>4. ASSUME ReadAccount(c) PROVE SetCredential(c, credential, "drop")
    BY <1>2, <2>4 DEF ReadAccount, SetCredential
  <2>5. ~ReadAccount(c)
    BY <2>4, CredentialEffect DEF OperatorInv
  <2> QED
    BY <2>1, <2>3, <2>5
<1>7. ~CheckRole(c) /\ ~Drop(c) /\ ~Replay(c) /\ ~RestoreUser(c) /\ ~RestoreAccount(c)
      /\ ~CommitRestore(c)
  BY <1>2, <1>3 DEF CheckRole, Drop, Replay, RestoreUser, RestoreAccount, CommitRestore
<1>8. ~GrantUsage(c) /\ ~GrantTables(c) /\ ~AlterDefaults(c) /\ ~LockFixtures(c)
      /\ ~InsertDeck(c) /\ ~Reconcile(c) /\ ~InsertCards(c)
  BY <1>2, <1>3 DEF GrantUsage, GrantTables, AlterDefaults, LockFixtures, InsertDeck,
     Reconcile, InsertCards
<1> QED
  BY <1>1, <1>5, <1>6, <1>7, <1>8 DEF DataStep

LEMMA CommandRows ==
  ASSUME NEW c \in Command, TesterStep(c) \/ DataStep(c)
  PROVE  cards' = cards \/ CommitFixtures(c) \/ Drop(c)
<1>1. CASE TesterStep(c)
  BY <1>1 DEF TesterStep, FindForProvision, OpenDelivery, InsertUser, InsertAccount,
     CommitProvision, FindForRevoke, DeleteAccounts, DeleteSessions, CommitRevoke, Start,
     Fail, Kill, database, fixtures
<1>2. CASE DataStep(c)
  BY <1>2 DEF DataStep, Migrate, FindTester, CheckRole, ReadAccount, Replay, RestoreUser,
     RestoreAccount, CommitRestore, GrantUsage, GrantTables, AlterDefaults, LockFixtures,
     InsertDeck, Reconcile, InsertCards, fixtures
<1> QED
  BY <1>1, <1>2

\* Of the cards that a committing seed or reset has not inserted itself, each is
\* there, or the tester has deleted it after the INSERT had found it.
Found(c) ==
  Data(c, "commit") =>
    \A k \in Fixture : k \in tx[c] \/ cards[k] \in {"canonical", "edited"} \/ k \in deleted[c]

FoundInv == \A c \in Command : Found(c)

LEMMA ComesToCommit ==
  ASSUME CommandShape, NEW c \in Command, TesterStep(c) \/ DataStep(c), Data(c, "commit")'
  PROVE  InsertCards(c)
<1>1. cmd'[c].kind \in {"seed", "reset"} /\ cmd'[c].pc = "commit"
  BY DEF Data
<1>2. ~Throw(c)
  BY <1>1, ThrowEffect
<1>3. ASSUME NEW pc, \/ Go(c, pc)
                     \/ \E v : \/ SetUser(c, v, pc) \/ SetCredential(c, v, pc)
                               \/ SetCreated(c, pc, v) \/ SetKind(c, v, pc)
      PROVE  pc = "commit"
  BY <1>1, <1>3, GoEffect, UserEffect, CredentialEffect, CreatedEffect, KindEffect
<1>4. ASSUME TesterStep(c) PROVE FALSE
  <2>1. ~InsertAccount(c) /\ ~DeleteSessions(c)
    BY <1>1, GoEffect DEF InsertAccount, DeleteSessions, At
  <2>2. \E pc \in {"open", "user", "account", "0", "sessions", "killed", "migrate", "find"} :
          \/ Go(c, pc)
          \/ \E v : SetUser(c, v, pc) \/ SetCreated(c, pc, v) \/ SetKind(c, v, pc)
    BY <1>2, <1>4, <2>1
       DEF TesterStep, FindForProvision, OpenDelivery, InsertUser, CommitProvision,
           FindForRevoke, DeleteAccounts, CommitRevoke, Start, Fail, Kill,
           SetUser, SetCreated, SetKind
  <2> QED
    BY <1>3, <2>2
<1>5. ASSUME DataStep(c), ~InsertCards(c) PROVE FALSE
  <2>1. \E pc \in {"0", "1", "role", "lock", "read", "drop", "replay", "restoreUser",
                   "restoreAccount", "commitRestore", "usage", "grant", "defaults", "deck",
                   "reconcile", "cards"} :
          Go(c, pc) \/ \E v : SetUser(c, v, pc) \/ SetCredential(c, v, pc)
    BY <1>2, <1>5
       DEF DataStep, Migrate, FindTester, CheckRole, ReadAccount, Drop, Replay, RestoreUser,
           RestoreAccount, CommitRestore, GrantUsage, GrantTables, AlterDefaults, LockFixtures,
           InsertDeck, Reconcile, CommitFixtures, SetUser, SetCredential
  <2> QED
    BY <1>3, <2>1
<1> QED
  BY <1>4, <1>5

LEMMA CommandFinds ==
  ASSUME OperatorInv, DataInv, FoundInv, NEW c \in Command, TesterStep(c) \/ DataStep(c),
         OwnRecord(c), deleted' = deleted
  PROVE  FoundInv'
<1>1. OwnRows(c)
  BY StepRows DEF OperatorInv
<1>2. ASSUME NEW d \in Command \ {c}, Data(d, "commit")' PROVE Found(d)'
  <2>1. Data(d, "commit") /\ tx'[d] = tx[d]
    BY <1>1, <1>2 DEF Data, OwnRecord, OwnRows
  <2>2. "begun" \in tx[d]
    BY <2>1 DEF Data, DataInv, CommandOK, OnFixtures, Fixing
  <2>3. ~Drop(c)
    BY <2>2 DEF Drop, DropSchema
  <2>4. \A k \in Fixture : cards[k] \in {"canonical", "edited"} => cards'[k] = cards[k]
    BY <2>3, CommandRows DEF CommitFixtures
  <2> QED
    BY <2>1, <2>4 DEF FoundInv, Found
<1>3. ASSUME Data(c, "commit")' PROVE Found(c)'
  <2>1. InsertCards(c)
    BY <1>3, ComesToCommit DEF OperatorInv
  <2>2. PICK rows :
          /\ rows = {k \in Fixture : cards[k] = "absent"} /\ Hold(c, rows) /\ cards' = cards
          /\ cmd[c].kind \in {"seed", "reset"} /\ cmd[c].pc = "cards"
    BY <2>1 DEF InsertCards, Data, fixtures
  <2>3. rows \subseteq tx'[c]
    BY <2>2, HoldEffect DEF OperatorInv
  <2>4. \A k \in Fixture : cards[k] \in {"absent", "canonical", "edited"}
    BY <2>2 DEF DataInv, RowsOK, CommandOK, OnFixtures, Fixing
  <2> QED
    BY <2>2, <2>3, <2>4 DEF Found
<1> QED
  BY <1>2, <1>3 DEF FoundInv, Found

\* What the web and a starting candidate do to the commands, the cards and the
\* account of the tester: nothing.
LEMMA OutsideCommands ==
  ASSUME [Next]_vars, ~CommandStep
  PROVE  /\ UNCHANGED <<cmd, file, tx, user, credential>>
         /\ UNCHANGED <<tables, history, grants, release, candidate>> \/ CandidateStep
         /\ UNCHANGED <<cards, deleted>> \/ EditStep
<1>1. CASE WebStep
  <2>1. UNCHANGED schema /\ UNCHANGED fixtures /\ UNCHANGED <<user, credential, tx>>
    BY <1>1, RequestRows DEF WebStep, Browse, database, accounts
  <2> QED
    BY <1>1, <2>1 DEF WebStep, operator, delivery, releases, schema, fixtures
<1>2. CASE EditStep
  BY <1>2 DEF EditStep, TesterEdits, operator, delivery, releases, schema, accounts
<1>3. CASE CandidateStep /\ UNCHANGED <<deleted, operator>>
  BY <1>3 DEF CandidateStep, operator, accounts, fixtures
<1>4. CASE SmokeStep /\ UNCHANGED <<deleted, operator>>
  BY <1>4 DEF SmokeStep, operator, releases, database, schema, accounts, fixtures
<1>5. CASE UNCHANGED vars
  BY <1>5 DEF vars, operator, delivery, releases, database, schema, accounts, fixtures
<1> QED
  BY <1>1, <1>2, <1>3, <1>4, <1>5 DEF Next

LEMMA EditFinds ==
  ASSUME DataInv, FoundInv, EditStep
  PROVE  FoundInv'
<1>1. UNCHANGED <<cmd, tx>>
  BY DEF EditStep, TesterEdits, operator
<1>2. \A k \in Fixture : cards[k] \in {"canonical", "edited"} =>
        cards'[k] \in {"canonical", "edited", "absent"}
  BY DEF EditStep, TesterEdits, DataInv, RowsOK
<1>3. ASSUME NEW c \in Command
      PROVE  deleted'[c] = deleted[c] \cup {k \in Fixture : /\ Data(c, "commit")
                                             /\ cards[k] # "absent" /\ cards'[k] = "absent"}
  BY DEF EditStep
<1>4. ASSUME NEW c \in Command, Data(c, "commit")', NEW k \in Fixture
      PROVE  k \in tx'[c] \/ cards'[k] \in {"canonical", "edited"} \/ k \in deleted'[c]
  <2>1. Data(c, "commit") /\ tx'[c] = tx[c]
    BY <1>1, <1>4 DEF Data
  <2>2. k \in tx[c] \/ cards[k] \in {"canonical", "edited"} \/ k \in deleted[c]
    BY <2>1 DEF FoundInv, Found
  <2> QED
    BY <1>2, <1>3, <2>1, <2>2
<1> QED
  BY <1>4 DEF FoundInv, Found

LEMMA FoundInvNext ==
  SandboxInv /\ DeliveryInv /\ DataInv /\ FoundInv /\ [Next]_vars => FoundInv'
<1> SUFFICES ASSUME SandboxInv, DeliveryInv, DataInv, FoundInv, [Next]_vars PROVE FoundInv'
  OBVIOUS
<1>1. CASE CommandStep
  <2>1. PICK c \in Command : TesterStep(c) \/ DataStep(c)
    BY <1>1 DEF CommandStep
  <2>2. OwnRecord(c)
    BY <2>1, DataLeaves, TesterLeaves, ThrowEffect
       DEF SandboxInv, OperatorInv, Leaves, Opens, Delivers
  <2> QED
    BY <1>1, <2>1, <2>2, CommandFinds DEF CommandStep, SandboxInv
<1>2. CASE EditStep
  BY <1>2, EditFinds
<1>3. CASE UNCHANGED <<cmd, tx, cards, deleted>>
  BY <1>3 DEF FoundInv, Found, Data
<1> QED
  BY <1>1, <1>2, <1>3, OutsideCommands

\* What the INSERT of the cards has established holds until its COMMIT, whatever
\* another seed commits and the tester edits (scripts/sandbox-data.mjs).
THEOREM FoundInvariant == Spec => []FoundInv
<1>1. Init => FoundInv
  BY DEF Init, FoundInv, Found, Data, Idle
<1> QED
  BY <1>1, FoundInvNext, SandboxInvariant, DeliveryInvariant, DataInvariant, PTL DEF Spec

\* A seed or reset that exits with 0 leaves the deck and every card to the tester
\* it found, whatever ran beside it, but a card which the tester itself deleted
\* after the INSERT; a reset also leaves the password it read, or none, under a
\* runtime role that can work (src/scripts/sandbox-data.mjs).
THEOREM AlwaysDataComplete == Spec => DataComplete
<1>1. SandboxInv /\ DeliveryInv /\ DataInv /\ FoundInv /\ [Next]_vars =>
        [\A c \in Command :
           cmd[c].kind \in {"seed", "reset"} /\ cmd[c].pc # "0" /\ cmd'[c].pc = "0" =>
             /\ deck' = cmd[c].user
             /\ \A k \in Fixture : cards'[k] \in {"canonical", "edited"} \/ k \in deleted[c]
             /\ user' = cmd[c].user
             /\ cmd[c].kind = "reset" =>
                  RuntimeOK' /\ credential' \in {None, cmd[c].credential}]_vars
  <2> SUFFICES ASSUME SandboxInv, DeliveryInv, DataInv, FoundInv, Next, NEW c \in Command,
                      cmd[c].kind \in {"seed", "reset"}, cmd[c].pc # "0", cmd'[c].pc = "0"
               PROVE  /\ deck' = cmd[c].user
                      /\ \A k \in Fixture :
                           cards'[k] \in {"canonical", "edited"} \/ k \in deleted[c]
                      /\ user' = cmd[c].user
                      /\ cmd[c].kind = "reset" =>
                           RuntimeOK' /\ credential' \in {None, cmd[c].credential}
    OBVIOUS
  <2>1. cmd' # cmd
    OBVIOUS
  <2>2. PICK d \in Command : TesterStep(d) \/ DataStep(d)
    BY <2>1 DEF Next, CommandStep, WebStep, EditStep, TesterEdits, operator
  <2>3. CommitFixtures(c)
    BY <2>2, EndsInCommit DEF SandboxInv
  <2>4. /\ Data(c, "commit") /\ cmd[c].pc = "commit" /\ UNCHANGED schema /\ UNCHANGED accounts
        /\ deck' = IF deck = None THEN cmd[c].user ELSE deck
        /\ cards' = [k \in Fixture |->
             IF k \in tx[c] /\ cards[k] = "absent" THEN "canonical" ELSE cards[k]]
    BY <2>3 DEF CommitFixtures, Data
  <2>5. /\ user = cmd[c].user /\ deck \in {None, user}
        /\ \A k \in Fixture : cards[k] \in {"absent", "canonical", "edited"}
    BY <2>4 DEF DataInv, RowsOK, CommandOK, OnFixtures, Fixing
  <2>6. \A k \in Fixture : cards'[k] \in {"canonical", "edited"} \/ k \in deleted[c]
    BY <2>4, <2>5 DEF FoundInv, Found
  <2>7. ASSUME cmd[c].kind = "reset"
        PROVE  RuntimeOK' /\ credential' \in {None, cmd[c].credential}
    BY <2>4, <2>7
       DEF DataInv, CommandOK, Rebuilt, Restored, Rebuilding, Fixing, RuntimeOK, schema, accounts
  <2> QED
    BY <2>4, <2>5, <2>6, <2>7 DEF accounts
<1> QED
  BY <1>1, SandboxInvariant, DeliveryInvariant, DataInvariant, FoundInvariant, PTL
     DEF Spec, DataComplete

-----------------------------------------------------------------------------
(* The cards a tester has edited                                           *)

\* Only the drop of a reset and the tester itself take away or rewrite a card
\* that the tester has edited, and only the drop one in somebody else's deck
\* (ON CONFLICT DO NOTHING in scripts/sandbox-data.mjs).
THEOREM AlwaysEditsPreserved == Spec => EditsPreserved
<1>1. DataInv /\ [Next]_vars =>
        [\A k \in Fixture :
           cards[k] \in {"edited", "foreign"} /\ cards'[k] # cards[k] =>
             ~tables' \/ (UNCHANGED cmd /\ cards[k] = "edited")]_vars
  <2> SUFFICES ASSUME DataInv, Next, NEW k \in Fixture,
                      cards[k] \in {"edited", "foreign"}, cards'[k] # cards[k]
               PROVE  ~tables' \/ (UNCHANGED cmd /\ cards[k] = "edited")
    OBVIOUS
  <2>1. CASE CommandStep
    <3>1. PICK c \in Command : CommitFixtures(c) \/ Drop(c)
      BY <2>1, CommandRows DEF CommandStep
    <3>2. ~CommitFixtures(c)
      BY DEF CommitFixtures
    <3> QED
      BY <3>1, <3>2 DEF Drop, DropSchema
  <2>2. CASE EditStep
    <3>1. ASSUME NEW j \in Fixture, NEW to, cards[j] \in {"canonical", "edited"},
                 cards' = [cards EXCEPT ![j] = to]
          PROVE  cards[k] = "edited"
      BY <3>1 DEF DataInv, RowsOK
    <3> QED
      BY <2>2, <3>1 DEF EditStep, TesterEdits, operator
  <2> QED
    BY <2>1, <2>2, OutsideCommands
<1> QED
  BY <1>1, DataInvariant, PTL DEF Spec, EditsPreserved

-----------------------------------------------------------------------------
(* The rings, and what a sign-out leaves                                   *)

LEMMA RingFacts ==
  ASSUME NEW to \in Rings
  PROVE  /\ Len(to) \in Nat \ {0} /\ DOMAIN to = 1..Len(to)
         /\ Head(to) = to[1] /\ Head(to) \in Keys(to) /\ to[Len(to)] \in Keys(to)
         /\ Keys(to) \subseteq UNION {Keys(r) : r \in Rings}
<1>1. to # <<>> /\ to \in Seq(Keys(to))
  BY RingsAssumption
<1>2. Len(to) \in Nat \ {0} /\ DOMAIN to = 1..Len(to)
  BY <1>1, EmptySeq, LenProperties
<1>3. Head(to) = to[1]
  BY <1>1
<1>4. to[1] \in Keys(to) /\ to[Len(to)] \in Keys(to)
  BY <1>2 DEF Keys
<1> QED
  BY <1>2, <1>3, <1>4

\* The key that signs is not retired by the next rotation.
LEMMA RotationRetains ==
  ASSUME NEW to \in Rings, ring \in Rings, Rotates(to)
  PROVE  Head(ring) \in Keys(to)
<1>1. /\ Len(to) \in Nat \ {0} /\ DOMAIN to = 1..Len(to)
      /\ Len(ring) \in Nat \ {0} /\ Head(ring) = ring[1]
  BY RingFacts
<1>2. CASE Tail(to) = ring
  <2>1. to # <<>> /\ to \in Seq(Keys(to))
    BY RingsAssumption
  <2>2. Len(Tail(to)) = Len(to) - 1 /\ \A i \in 1..Len(Tail(to)) : Tail(to)[i] = to[i + 1]
    BY <2>1, HeadTailProperties
  <2>3. ring[1] = to[2] /\ 2 \in DOMAIN to
    BY <1>1, <1>2, <2>2
  <2> QED
    BY <1>1, <2>3 DEF Keys
<1>3. CASE \E n \in 1..Len(ring) : to = SubSeq(ring, 1, n)
  <2>1. PICK n \in 1..Len(ring) : to = SubSeq(ring, 1, n)
    BY <1>3
  <2>2. to[1] = ring[1]
    <3>1. \A i \in 1..n : ring[i] \in Keys(ring)
      BY RingFacts DEF Keys
    <3> QED
      BY <1>1, <2>1, <3>1, SubSeqProperties
  <2> QED
    BY <1>1, <2>2 DEF Keys
<1> QED
  BY <1>2, <1>3 DEF Rotates

\* Nobody signs out with a cookie that a sign-in under way could still mint, and
\* an answered sign-out has taken the session, unless the ring it came under had
\* lost the cookie's key.
SignedOut(r) ==
  req[r].kind = "sign-out" =>
    /\ req[r].pc \in {"hook", "done"} /\ Spent(req[r].cookie.token)
    /\ req[r].pc = "done" /\ req[r].answer = 200 =>
         SessionOf(r) = {} \/ req[r].cookie.key \notin Keys(req[r].ring)

\* A runtime role that is cut off has no session: the schema was dropped.
CutOff == RuntimeOK \/ sessions = {}

\* The smoke that is about to end, or has, with a cookie has sent its sign-out.
Leaving ==
  \/ smoke.pc = "signing out"
  \/ smoke.pc = "over" /\ smoke.cookie # None /\ ~smoke.cleanupFailed

SmokeHas == smoke.cookie \in cookies /\ smoke.cookie.token = SmokeSignIn

SmokeLeaves ==
  /\ smoke.cookie # None => SmokeHas
  /\ smoke.pc \in {"deck", "reading", "sign out", "signing out"} => SmokeHas
  /\ Leaving =>
       /\ req[SmokeSignOut].kind = "sign-out" /\ req[SmokeSignOut].cookie = smoke.cookie
       /\ smoke.pc = "over" =>
            req[SmokeSignOut].pc = "done" /\ req[SmokeSignOut].answer = 200

WebTypes ==
  /\ SessionsTypeOK /\ next \in Rings
  /\ \A r \in Request : req[r].pc # "idle" => req[r].ring \in Rings

CleanInv == WebTypes /\ CutOff /\ SmokeLeaves /\ \A r \in Request : SignedOut(r)

-----------------------------------------------------------------------------
(* With one deployment at most                                             *)

\* A key that signs now, or did until the only rotation there is.
Kept(key) == key \in Keys(ring) /\ (release = 1 => key = Head(ring))

OneRotation ==
  /\ release \in {1, 2}
  /\ candidate \in {"configuration", "migrate", "exec"} => release = 1 /\ Rotates(next)
  /\ \A cookie \in cookies : cookie.token \in Request => Kept(cookie.key)
  /\ \A r \in Request : req[r].pc \in {"password", "mint"} => Kept(Head(req[r].ring))
  /\ req[SmokeSignOut].kind = "sign-out" =>
       req[SmokeSignOut].cookie.key \in Keys(req[SmokeSignOut].ring)

-----------------------------------------------------------------------------
(* That a sign-out leaves no session is invariant                          *)

LEMMA RequestMoves ==
  ASSUME WebInv, NEW r \in Request, SignedOut(r), RequestStep(r)
  PROVE  /\ OwnRequest(r) /\ SameCall(r) /\ req[r].pc \notin {"idle", "done"}
         /\ \/ req'[r].pc = "done" /\ req'[r].answer \in {200, 401, 500}
            \/ /\ req'[r].pc \in {"mint", "purge", "session", "user"}
               /\ req'[r].answer = req[r].answer /\ req[r].kind # "sign-out"
               /\ req'[r].pc = "mint" => req[r].pc = "password"
         /\ req[r].kind = "sign-out" => SignOut(r)
<1>0. /\ req[r].pc \in {"password", "mint"} => req[r].kind = "sign-in"
      /\ req[r].pc = "purge" => req[r].kind = "call"
      /\ req[r].kind = "sign-out" => req[r].pc \in {"hook", "done"}
      /\ RequestShape
  BY DEF WebInv, RequestOK, PurgesOwn, SignedOut
<1>1. ASSUME NEW status \in {200, 401, 500}, Answer(r, status)
      PROVE  /\ OwnRequest(r) /\ SameCall(r)
             /\ req'[r].pc = "done" /\ req'[r].answer \in {200, 401, 500}
  BY <1>0, <1>1, AnswerEffect
<1>2. ASSUME NEW pc, Passed(r, pc) \/ \E u : Located(r, u, pc)
      PROVE  /\ OwnRequest(r) /\ SameCall(r)
             /\ req'[r].pc = pc /\ req'[r].answer = req[r].answer
  BY <1>0, <1>2, PassedEffect, LocatedEffect
<1>3. CASE VerifyPassword(r)
  <2>1. /\ req[r].pc = "password"
        /\ Answer(r, 500) \/ Answer(r, 401) \/ Passed(r, "mint")
    BY <1>3 DEF VerifyPassword, Passed
  <2> QED
    BY <1>0, <1>1, <1>2, <2>1
<1>4. CASE Mint(r)
  BY <1>0, <1>1, <1>4 DEF Mint
<1>5. CASE Hook(r)
  <2>1. /\ req[r].pc = "hook" /\ req[r].kind = "call"
        /\ \/ Answer(r, 500) \/ Answer(r, 401)
           \/ \E pc \in {"purge", "session"} : Located(r, SessionUser(r), pc)
    BY <1>5 DEF Hook, Located
  <2> QED
    BY <1>1, <1>2, <2>1
<1>6. CASE Purge(r)
  BY <1>0, <1>1, <1>6 DEF Purge
<1>7. CASE GetSession(r)
  <2>1. /\ req[r].pc = "session"
        /\ Answer(r, 500) \/ Answer(r, 401) \/ Located(r, SessionUser(r), "user")
    BY <1>7 DEF GetSession, Located
  <2> QED
    BY <1>0, <1>1, <1>2, <2>1
<1>8. CASE CustomSession(r)
  BY <1>0, <1>1, <1>8 DEF CustomSession
<1>9. CASE SignOut(r)
  BY <1>0, <1>1, <1>9 DEF SignOut
<1> QED
  BY <1>3, <1>4, <1>5, <1>6, <1>7, <1>8, <1>9 DEF RequestStep

\* What a request does to the sessions and the cookies.
Mints(r) ==
  /\ req[r].pc = "mint" /\ RuntimeOK
  /\ sessions' = sessions \cup {[token |-> r, user |-> user]}
  /\ cookies' = cookies \cup {[token |-> r, key |-> Head(req[r].ring)]}

LEMMA RequestSessions ==
  ASSUME NEW r \in Request, RequestStep(r)
  PROVE  /\ ring' = ring /\ UNCHANGED schema
         /\ Mints(r) \/ (sessions' \subseteq sessions /\ cookies' = cookies)
BY DEF RequestStep, VerifyPassword, Mint, Hook, Purge, GetSession, CustomSession, SignOut,
   Mints, database, accounts

LEMMA SignOutTakes ==
  ASSUME WebInv, CutOff, NEW r \in Request, SignOut(r), SameCall(r), req'[r].answer = 200
  PROVE  SessionOf(r)' = {} \/ req'[r].cookie.key \notin Keys(req'[r].ring)
<1>1. CASE ~Verified(r)
  BY <1>1 DEF Verified, SameCall
<1>2. CASE Verified(r) /\ ~RuntimeOK
  BY <1>2 DEF SignOut, CutOff, SessionOf
<1>3. CASE Verified(r) /\ RuntimeOK
  BY <1>3 DEF SignOut, SessionOf, SameCall
<1> QED
  BY <1>1, <1>2, <1>3

\* A session more is that of a sign-in under way, with which nobody signs out.
LEMMA OthersSignedOut ==
  ASSUME NEW q \in Request, SignedOut(q), req'[q] = req[q],
         \A token : Spent(token) => Spent(token)',
         \A s \in sessions' : s \in sessions \/ ~Spent(s.token)
  PROVE  SignedOut(q)'
<1>1. req[q].kind = "sign-out" => SessionOf(q)' \subseteq SessionOf(q)
  BY DEF SignedOut, SessionOf
<1> QED
  BY <1>1 DEF SignedOut

LEMMA RequestClean ==
  ASSUME WebInv, CleanInv, Owned, user \in Tester \cup {None}, NEW r \in Request,
         RequestStep(r), UNCHANGED <<next, smoke>>
  PROVE  CleanInv'
<1>0. /\ WebTypes /\ CutOff /\ SmokeLeaves /\ \A q \in Request : SignedOut(q)
  BY DEF CleanInv
<1>1. /\ OwnRequest(r) /\ SameCall(r) /\ req[r].pc \notin {"idle", "done"}
      /\ \/ req'[r].pc = "done" /\ req'[r].answer \in {200, 401, 500}
         \/ /\ req'[r].pc \in {"mint", "purge", "session", "user"}
            /\ req'[r].answer = req[r].answer /\ req[r].kind # "sign-out"
      /\ req[r].kind = "sign-out" => SignOut(r)
  BY <1>0, RequestMoves
<1>2. /\ ring' = ring /\ UNCHANGED schema
      /\ Mints(r) \/ (sessions' \subseteq sessions /\ cookies' = cookies)
  BY RequestSessions
<1>3. \A token : Spent(token) => Spent(token)' /\ token # r
  BY <1>1 DEF Spent, OwnRequest
<1>4. cookies \subseteq cookies' /\ cookies' \subseteq Cookie
  <2>1. cookies \subseteq Cookie /\ req[r].ring \in Rings
    BY <1>0, <1>1 DEF WebTypes, SessionsTypeOK
  <2>2. Head(req[r].ring) \in UNION {Keys(to) : to \in Rings}
    BY <2>1, RingFacts
  <2>3. [token |-> r, key |-> Head(req[r].ring)] \in Cookie
    BY <2>2 DEF Cookie, Keys, Token
  <2> QED
    BY <1>2, <2>1, <2>3 DEF Mints
<1>5. WebTypes'
  <2>1. ring' \in Rings /\ next' \in Rings
    BY <1>0, <1>2 DEF WebTypes, SessionsTypeOK
  <2>2. ASSUME NEW q \in Request
        PROVE  /\ req'[q].pc \in {"idle", "password", "mint", "hook", "purge",
                                  "session", "user", "done"}
               /\ req'[q].cookie \in Cookie \cup {None}
               /\ req'[q].answer \in {0, 200, 401, 500}
               /\ req'[q].pc # "idle" => req'[q].ring \in Rings
    BY <1>0, <1>1 DEF WebTypes, SessionsTypeOK, OwnRequest, SameCall
  <2> QED
    BY <1>4, <2>1, <2>2 DEF WebTypes, SessionsTypeOK
<1>6. CutOff'
  BY <1>0, <1>2 DEF CutOff, Mints, RuntimeOK, schema
<1>7. ASSUME NEW q \in Request PROVE SignedOut(q)'
  <2>1. CASE q # r
    <3>1. \A s \in sessions' : s \in sessions \/ ~Spent(s.token)
      BY <1>2, <1>3 DEF Mints
    <3> QED
      BY <1>0, <1>1, <1>3, <2>1, <3>1, OthersSignedOut DEF OwnRequest
  <2>2. CASE q = r /\ req[r].kind = "sign-out"
    <3>1. Spent(req[r].cookie.token)'
      <4>1. PICK token : token = req[r].cookie.token
        OBVIOUS
      <4>2. Spent(token)' /\ req'[r].cookie.token = token
        BY <1>0, <1>1, <1>3, <2>2, <4>1 DEF SignedOut, SameCall
      <4> QED
        BY <4>2
    <3>2. req'[r].pc = "done" /\ SignOut(r)
      BY <1>1, <2>2
    <3>3. req'[r].answer = 200 =>
            SessionOf(r)' = {} \/ req'[r].cookie.key \notin Keys(req'[r].ring)
      BY <1>0, <1>1, <3>2, SignOutTakes
    <3> QED
      BY <1>1, <2>2, <3>1, <3>2, <3>3 DEF SignedOut, SameCall, Spent
  <2>3. CASE q = r /\ req[r].kind # "sign-out"
    BY <1>1, <2>3 DEF SignedOut, SameCall
  <2> QED
    BY <2>1, <2>2, <2>3
<1>8. SmokeLeaves'
  <2>1. SmokeSignOut \in Request
    BY ReleaseAssumption
  <2>2. /\ req'[SmokeSignOut].kind = req[SmokeSignOut].kind
        /\ req'[SmokeSignOut].cookie = req[SmokeSignOut].cookie
        /\ req[SmokeSignOut].pc = "done" => req'[SmokeSignOut] = req[SmokeSignOut]
    BY <1>1, <2>1 DEF OwnRequest, SameCall
  <2> QED
    BY <1>0, <1>4, <2>2 DEF SmokeLeaves, SmokeHas, Leaving
<1> QED
  BY <1>5, <1>6, <1>7, <1>8 DEF CleanInv

\* A request arrives under the ring of the serving release.
LEMMA ArriveClean ==
  ASSUME WebInv, WebTypes, \A q \in Request : SignedOut(q), NEW r \in Request,
         NEW kind \in Kind, NEW cookie, NEW tester, Arrive(r, kind, cookie, tester),
         UNCHANGED <<sessions, ring, cookies, next>>,
         cookie \in cookies \/ (cookie = None /\ kind # "sign-out")
  PROVE  /\ WebTypes' /\ \A q \in Request : SignedOut(q)'
         /\ OwnRequest(r) /\ req[r].pc = "idle"
         /\ req'[r].kind = kind /\ req'[r].cookie = cookie /\ req'[r].ring = ring
         /\ req'[r].pc \in {"password", "hook"}
<1> DEFINE revoked == credential = None
           pc == IF kind = "sign-in" THEN "password" ELSE "hook"
<1>1. req[r].pc = "idle" /\ Arrived(r, kind, cookie, tester, revoked, pc)
  BY DEF Arrive, Arrived
<1>2. pc \in {"password", "hook"} /\ (kind = "sign-out" => pc = "hook")
  OBVIOUS
<1> HIDE DEF pc, revoked
<1>3. /\ OwnRequest(r) /\ req'[r].kind = kind /\ req'[r].cookie = cookie /\ req'[r].pc = pc
      /\ req'[r].answer = req[r].answer /\ req'[r].ring = ring
  BY <1>1, ArrivedEffect DEF WebInv
<1>4. \A token : Spent(token) => Spent(token)' /\ token # r
  BY <1>1, <1>3 DEF Spent, OwnRequest
<1>5. WebTypes'
  <2>1. cookie \in Cookie \cup {None} /\ ring \in Rings
    BY DEF WebTypes, SessionsTypeOK
  <2>2. ASSUME NEW q \in Request
        PROVE  /\ req'[q].pc \in {"idle", "password", "mint", "hook", "purge",
                                  "session", "user", "done"}
               /\ req'[q].cookie \in Cookie \cup {None}
               /\ req'[q].answer \in {0, 200, 401, 500}
               /\ req'[q].pc # "idle" => req'[q].ring \in Rings
    BY <1>2, <1>3, <2>1 DEF WebTypes, SessionsTypeOK, OwnRequest
  <2> QED
    BY <2>2 DEF WebTypes, SessionsTypeOK
<1>6. ASSUME NEW q \in Request \ {r} PROVE SignedOut(q)'
  BY <1>3, <1>4, OthersSignedOut DEF OwnRequest
<1>7. SignedOut(r)'
  <2>1. kind = "sign-out" => Spent(cookie.token)'
    BY <1>4 DEF WebInv
  <2> QED
    BY <1>2, <1>3, <2>1 DEF SignedOut, Spent
<1> QED
  BY <1>1, <1>2, <1>3, <1>5, <1>6, <1>7

\* Operators, deployments and edits leave requests and the smoke alone.
LEMMA OutsideClean ==
  ASSUME CleanInv, UNCHANGED <<cookies, req, smoke>>, ring' \in Rings, next' \in Rings,
         sessions' \subseteq sessions, sessions' = {} \/ (tables => tables'),
         sessions' = {} \/ grants \subseteq grants'
  PROVE  CleanInv'
<1>1. WebTypes'
  BY DEF CleanInv, WebTypes, SessionsTypeOK
<1>2. CutOff'
  BY DEF CleanInv, CutOff, RuntimeOK
<1>3. SmokeLeaves'
  BY DEF CleanInv, SmokeLeaves, SmokeHas, Leaving
<1>4. \A q \in Request : SignedOut(q)'
  <2>1. \A token : Spent(token) => Spent(token)'
    BY DEF Spent
  <2> QED
    BY <2>1, OthersSignedOut DEF CleanInv
<1> QED
  BY <1>1, <1>2, <1>3, <1>4 DEF CleanInv

LEMMA CommandClean ==
  ASSUME OperatorInv, Owned, DataInv, DeliveryInv, CleanInv, CommandStep
  PROVE  CleanInv'
<1>1. PICK c \in Command : (TesterStep(c) \/ DataStep(c)) /\ OneReset
  BY DEF CommandStep
<1>2. UNCHANGED <<cookies, req, smoke, ring, next>>
  BY DEF CommandStep, web, delivery, releases
<1>3. ring' \in Rings /\ next' \in Rings
  BY <1>2 DEF CleanInv, WebTypes, SessionsTypeOK
<1>4. sessions' \subseteq sessions
  BY CommandKeeps DEF Shrinks
<1>5. sessions' = {} \/ Calm
  <2>1. ASSUME Drop(c) PROVE sessions' = {}
    BY <2>1 DEF Drop, DropSchema
  <2> QED
    BY <1>1, <2>1, CommandCalm
<1> QED
  BY <1>2, <1>3, <1>4, <1>5, OutsideClean DEF Calm

LEMMA BrowseClean ==
  ASSUME WebInv, OperatorInv, CleanInv, NEW r \in Request \ SmokeRequests, Browse(r),
         UNCHANGED delivery
  PROVE  CleanInv'
<1>1. /\ UNCHANGED <<sessions, ring, cookies, next, smoke, tables, grants>>
  BY DEF Browse, database, accounts, schema, delivery, releases
<1>2. WebTypes' /\ (\A q \in Request : SignedOut(q)') /\ OwnRequest(r)
  <2>1. CASE \E t \in {First, file} \ {None} : SignIn(r, t)
    <3>1. PICK t : Arrive(r, "sign-in", None, t)
      BY <2>1 DEF SignIn
    <3> QED
      BY <1>1, <3>1, ArriveClean DEF CleanInv, Kind
  <2>2. CASE \E cookie \in cookies, kind \in {"call", "sign-out"} : Carry(r, kind, cookie)
    <3>1. PICK cookie \in cookies, kind \in {"call", "sign-out"} : Arrive(r, kind, cookie, None)
      BY <2>2 DEF Carry
    <3> QED
      BY <1>1, <3>1, ArriveClean DEF CleanInv, Kind
  <2> QED
    BY <2>1, <2>2 DEF Browse
<1>3. CutOff'
  BY <1>1 DEF CleanInv, CutOff, RuntimeOK
<1>4. SmokeLeaves'
  <2>1. req'[SmokeSignOut] = req[SmokeSignOut]
    BY <1>2, ReleaseAssumption DEF OwnRequest, SmokeRequests
  <2> QED
    BY <1>1, <2>1 DEF CleanInv, SmokeLeaves, SmokeHas, Leaving
<1> QED
  BY <1>2, <1>3, <1>4 DEF CleanInv

-----------------------------------------------------------------------------
(* The smoke                                                               *)

LEMMA SmokeGoes ==
  ASSUME SmokeInv, NEW pc, SmokeGo(pc)
  PROVE  /\ smoke'.pc = pc /\ smoke'.cookie = smoke.cookie
         /\ smoke'.cleanupFailed = smoke.cleanupFailed
BY DEF SmokeInv, SmokeGo, SmokeFields

LEMMA SmokeBreaks ==
  ASSUME SmokeInv, SmokeFails
  PROVE  /\ smoke'.cookie = smoke.cookie
         /\ smoke'.pc = IF smoke.cookie = None THEN "over" ELSE "sign out"
BY DEF SmokeInv, SmokeFails, SmokeFields

LEMMA SmokeGivesUp ==
  ASSUME SmokeInv, SignOutFails
  PROVE  smoke'.pc = "over" /\ smoke'.cookie = smoke.cookie /\ smoke'.cleanupFailed
BY DEF SmokeInv, SignOutFails, SmokeFields

\* A smoke that does not sign out yet needs its cookie only.
LEMMA SmokeStays ==
  ASSUME SmokeLeaves, UNCHANGED cookies, ~Leaving',
         smoke'.cookie = smoke.cookie,
         smoke'.pc \in {"deck", "reading", "sign out", "signing out"} => SmokeHas
  PROVE  SmokeLeaves'
BY DEF SmokeLeaves, SmokeHas

LEMMA SmokeLeavesNext ==
  ASSUME WebInv, SmokeInv, CleanInv, SmokeStep
  PROVE  SmokeLeaves'
<1>0. SmokeLeaves /\ UNCHANGED cookies
  BY DEF CleanInv, SmokeStep
<1>1. ASSUME SmokeFails PROVE SmokeLeaves'
  <2>1. ~Leaving'
    BY <1>1, SmokeBreaks DEF Leaving
  <2> QED
    BY <1>0, <1>1, <2>1, SmokeBreaks, SmokeStays DEF SmokeLeaves
<1>2. ASSUME SignOutFails, smoke.pc = "signing out" PROVE SmokeLeaves'
  <2>1. ~Leaving'
    BY <1>2, SmokeGivesUp DEF Leaving
  <2> QED
    BY <1>0, <1>2, <2>1, SmokeGivesUp, SmokeStays
<1>3. ASSUME NEW pc \in {"root", "health", "documents", "sign in", "signing in",
                         "reading", "sign out"},
             SmokeGo(pc), pc \in {"reading", "sign out"} => SmokeHas
      PROVE  SmokeLeaves'
  <2>1. ~Leaving'
    BY <1>3, SmokeGoes DEF Leaving
  <2> QED
    BY <1>0, <1>3, <2>1, SmokeGoes, SmokeStays
<1>4. CASE SmokeStart
  <2>1. smoke'.pc = "root" /\ smoke'.cookie = smoke.cookie
    BY <1>4 DEF SmokeStart, SmokeInv, SmokeFields
  <2>2. ~Leaving'
    BY <2>1 DEF Leaving
  <2> QED
    BY <1>0, <2>1, <2>2, SmokeStays
<1>5. CASE SmokeReads
  <2>1. SmokeFails \/ SmokeGo("health") \/ SmokeGo("documents") \/ SmokeGo("sign in")
    BY <1>5 DEF SmokeReads
  <2> QED
    BY <1>1, <1>3, <2>1
<1>6. CASE SmokeSends
  <2>1. \/ SmokeGo("signing in")
        \/ smoke.pc = "deck" /\ SmokeGo("reading")
        \/ /\ smoke.pc = "sign out" /\ SmokeGo("signing out")
           /\ Arrive(SmokeSignOut, "sign-out", smoke.cookie, None)
    BY <1>6 DEF SmokeSends, Carry
  <2>2. CASE SmokeGo("signing in")
    BY <1>3, <2>2
  <2>3. CASE smoke.pc = "deck" /\ SmokeGo("reading")
    BY <1>0, <1>3, <2>3 DEF SmokeLeaves
  <2>4. CASE /\ smoke.pc = "sign out" /\ SmokeGo("signing out")
             /\ Arrive(SmokeSignOut, "sign-out", smoke.cookie, None)
    <3>1. SmokeHas
      BY <1>0, <2>4 DEF SmokeLeaves
    <3>2. UNCHANGED <<sessions, ring, cookies, next>> /\ SmokeSignOut \in Request
      BY ReleaseAssumption DEF SmokeStep, database, accounts, releases
    <3>3. req'[SmokeSignOut].kind = "sign-out" /\ req'[SmokeSignOut].cookie = smoke.cookie
      BY <2>4, <3>1, <3>2, ArriveClean DEF CleanInv, Kind, SmokeHas
    <3>4. smoke'.pc = "signing out" /\ smoke'.cookie = smoke.cookie
      BY <2>4, SmokeGoes
    <3> QED
      BY <1>0, <3>1, <3>3, <3>4 DEF SmokeLeaves, SmokeHas
  <2> QED
    BY <2>1, <2>2, <2>3, <2>4
<1>7. CASE SmokeReceives
  <2>1. /\ UNCHANGED req
        /\ \/ SmokeFails
           \/ smoke.pc = "signing out" /\ SignOutFails
           \/ smoke.pc = "reading" /\ SmokeGo("sign out")
           \/ smoke.pc = "signing out" /\ Answered(200) /\ SmokeGo("over")
           \/ \E c \in cookies :
                c.token = SmokeSignIn /\ smoke' = [smoke EXCEPT !.cookie = c, !.pc = "deck"]
    BY <1>7 DEF SmokeReceives
  <2>2. CASE smoke.pc = "reading" /\ SmokeGo("sign out")
    BY <1>0, <1>3, <2>2 DEF SmokeLeaves
  <2>3. CASE smoke.pc = "signing out" /\ Answered(200) /\ SmokeGo("over")
    <3>1. smoke'.pc = "over" /\ smoke'.cookie = smoke.cookie
      BY <2>3, SmokeGoes
    <3>2. Sent[smoke.pc] = SmokeSignOut
      BY <2>3 DEF Sent
    <3>3. req[SmokeSignOut].pc = "done" /\ req[SmokeSignOut].answer = 200
      BY <2>3, <3>2 DEF Answered
    <3> QED
      BY <1>0, <2>1, <2>3, <3>1, <3>3 DEF SmokeLeaves, SmokeHas, Leaving
  <2>4. CASE \E c \in cookies :
               c.token = SmokeSignIn /\ smoke' = [smoke EXCEPT !.cookie = c, !.pc = "deck"]
    <3>1. PICK c \in cookies :
            c.token = SmokeSignIn /\ smoke' = [smoke EXCEPT !.cookie = c, !.pc = "deck"]
      BY <2>4
    <3>2. smoke'.pc = "deck" /\ smoke'.cookie = c
      BY <3>1 DEF SmokeInv, SmokeFields
    <3>3. SmokeHas'
      BY <1>0, <3>1, <3>2 DEF SmokeHas
    <3>4. ~Leaving'
      BY <3>2 DEF Leaving
    <3> QED
      BY <3>3, <3>4 DEF SmokeLeaves
  <2> QED
    BY <1>1, <1>2, <2>1, <2>2, <2>3, <2>4
<1>8. CASE SmokeTimesOut
  BY <1>1, <1>2, <1>8 DEF SmokeTimesOut
<1> QED
  BY <1>4, <1>5, <1>6, <1>7, <1>8 DEF SmokeStep

LEMMA SmokeClean ==
  ASSUME WebInv, SmokeInv, CleanInv, SmokeStep
  PROVE  CleanInv'
<1>1. /\ UNCHANGED <<sessions, ring, cookies, next, tables, grants>>
  BY DEF SmokeStep, database, accounts, schema, releases
<1>2. SmokeLeaves'
  BY SmokeLeavesNext
<1>3. CutOff'
  BY <1>1 DEF CleanInv, CutOff, RuntimeOK
<1>4. WebTypes' /\ \A q \in Request : SignedOut(q)'
  <2>1. CASE UNCHANGED req
    <3>1. \A token : Spent(token) => Spent(token)'
      BY <2>1 DEF Spent
    <3>2. \A q \in Request : SignedOut(q)'
      BY <1>1, <2>1, <3>1, OthersSignedOut DEF CleanInv
    <3> QED
      BY <1>1, <2>1, <3>2 DEF CleanInv, WebTypes, SessionsTypeOK
  <2>2. CASE SmokeSends
    <3>1. PICK r, kind, cookie, tester :
            /\ r \in Request /\ kind \in Kind
            /\ Arrive(r, kind, cookie, tester)
            /\ cookie \in cookies \/ (cookie = None /\ kind # "sign-out")
      <4>1. /\ \/ Arrive(SmokeSignIn, "sign-in", None, First)
               \/ smoke.pc = "deck" /\ Arrive(SmokeDeck, "call", smoke.cookie, None)
               \/ smoke.pc = "sign out" /\ Arrive(SmokeSignOut, "sign-out", smoke.cookie, None)
            /\ smoke.pc \in {"deck", "sign out"} => smoke.cookie \in cookies
        BY <2>2 DEF SmokeSends, SignIn, Carry, CleanInv, SmokeLeaves, SmokeHas
      <4>2. {SmokeSignIn, SmokeDeck, SmokeSignOut} \subseteq Request
        BY ReleaseAssumption
      <4>3. CASE Arrive(SmokeSignIn, "sign-in", None, First)
        BY <4>2, <4>3 DEF Kind
      <4>4. CASE smoke.pc = "deck" /\ Arrive(SmokeDeck, "call", smoke.cookie, None)
        BY <4>1, <4>2, <4>4 DEF Kind
      <4>5. CASE smoke.pc = "sign out" /\ Arrive(SmokeSignOut, "sign-out", smoke.cookie, None)
        BY <4>1, <4>2, <4>5 DEF Kind
      <4> QED
        BY <4>1, <4>3, <4>4, <4>5
    <3> QED
      BY <1>1, <3>1, ArriveClean DEF CleanInv
  <2> QED
    BY <2>1, <2>2 DEF SmokeStep, SmokeStart, SmokeReads, SmokeReceives, SmokeTimesOut
<1> QED
  BY <1>2, <1>3, <1>4 DEF CleanInv

LEMMA CleanInvInit == Init => CleanInv
<1> SUFFICES ASSUME Init PROVE CleanInv
  OBVIOUS
<1>1. \A r \in Request : req[r] = NoRequest
  BY DEF Init
<1>2. WebTypes
  <2>1. ring \in Rings /\ next \in Rings
    BY DEF Init
  <2>2. cookies \subseteq Cookie
    <3>1. cookies = {[token |-> s.token, key |-> ring[Len(ring)]] : s \in sessions}
          /\ \A s \in sessions : s.token = First
      BY DEF Init
    <3>2. ring[Len(ring)] \in UNION {Keys(r) : r \in Rings}
      BY <2>1, RingFacts
    <3>3. [token |-> First, key |-> ring[Len(ring)]] \in Cookie
      BY <3>2 DEF Cookie, Keys, Token
    <3> QED
      BY <3>1, <3>3
  <2> QED
    BY <1>1, <2>1, <2>2 DEF WebTypes, SessionsTypeOK, NoRequest
<1>3. CutOff
  BY DEF Init, CutOff, RuntimeOK
<1>4. SmokeLeaves
  BY DEF Init, SmokeLeaves, NoSmoke, Leaving
<1>5. \A r \in Request : SignedOut(r)
  BY <1>1, KindAssumption DEF Kind, SignedOut, NoRequest
<1> QED
  BY <1>2, <1>3, <1>4, <1>5 DEF CleanInv

LEMMA CleanInvNext ==
  SandboxInv /\ DeliveryInv /\ DataInv /\ CleanInv /\ [Next]_vars => CleanInv'
<1> SUFFICES ASSUME SandboxInv, DeliveryInv, DataInv, CleanInv, [Next]_vars PROVE CleanInv'
  OBVIOUS
<1>0. ring \in Rings /\ next \in Rings
  BY DEF CleanInv, WebTypes, SessionsTypeOK
<1>1. CASE CommandStep
  BY <1>1, CommandClean DEF SandboxInv
<1>2. CASE WebStep
  <2>1. UNCHANGED delivery /\ UNCHANGED <<next, smoke>>
    BY <1>2 DEF WebStep, delivery, releases
  <2>2. CASE \E r \in (Request \ SmokeRequests) \cap cast : Browse(r)
    BY <2>1, <2>2, BrowseClean DEF SandboxInv
  <2>3. CASE \E r \in Request : RequestStep(r)
    BY <2>1, <2>3, RequestClean DEF SandboxInv, DataInv, RowsOK
  <2> QED
    BY <1>2, <2>2, <2>3 DEF WebStep
<1>3. CASE EditStep
  <2>1. UNCHANGED <<cookies, req, smoke, ring, next, sessions, tables, grants>>
    BY <1>3 DEF EditStep, TesterEdits, web, delivery, releases, schema, accounts
  <2> QED
    BY <1>0, <2>1, OutsideClean
<1>4. CASE CandidateStep
  <2>1. /\ UNCHANGED <<cookies, req, smoke, sessions>>
        /\ UNCHANGED schema \/ DeployOK \/ DeployFails
        /\ next' = next \/ next' \in Rings
        /\ ring' = ring \/ ring' = next
    BY <1>4 DEF CandidateStep, Deploy, CheckDirect, MigrateDeploy, ExecServer, accounts
  <2>2. grants' = grants
    BY <2>1, DeployKeepsGrants DEF SandboxInv, OperatorInv, schema
  <2>3. tables => tables'
    BY <2>1 DEF DeployOK, DeployFails, schema
  <2> QED
    BY <1>0, <2>1, <2>2, <2>3, OutsideClean
<1>5. CASE SmokeStep
  BY <1>5, SmokeClean DEF SandboxInv
<1>6. CASE UNCHANGED vars
  <2>1. UNCHANGED <<cookies, req, smoke, ring, next, sessions, tables, grants>>
    BY <1>6 DEF vars, database, schema, accounts, web, delivery, releases
  <2> QED
    BY <1>0, <2>1, OutsideClean
<1> QED
  BY <1>1, <1>2, <1>3, <1>4, <1>5, <1>6 DEF Next

\* A sign-out that is answered 200 has ended the session of its cookie, whatever
\* operators, releases and other browsers did, unless the cookie's key had left
\* the ring it came under (src/lib/auth.ts, scripts/release-smoke.mjs).
THEOREM SignOutInvariant == Spec => []CleanInv
BY CleanInvInit, CleanInvNext, SandboxInvariant, DeliveryInvariant, DataInvariant, PTL DEF Spec

-----------------------------------------------------------------------------
(* A smoke beside one deployment                                           *)

LEMMA RotationStays ==
  ASSUME OneRotation, UNCHANGED <<cookies, req, ring, release, candidate, next>>
  PROVE  OneRotation'
BY DEF OneRotation, Kept, Rotates

LEMMA RequestRotation ==
  ASSUME WebInv, CleanInv, OneRotation, NEW r \in Request, RequestStep(r),
         UNCHANGED <<release, candidate, next>>
  PROVE  OneRotation'
<1>1. /\ OwnRequest(r) /\ SameCall(r)
      /\ req'[r].pc \in {"password", "mint"} => req[r].pc = "password"
  BY RequestMoves DEF CleanInv
<1>2. ring' = ring /\ (Mints(r) \/ cookies' = cookies)
  BY RequestSessions
<1>3. \A key : Kept(key) => Kept(key)'
  BY <1>2 DEF Kept
<1>4. \A cookie \in cookies' : cookie.token \in Request => Kept(cookie.key)
  BY <1>2 DEF OneRotation, Mints
<1>5. \A q \in Request : req'[q].pc \in {"password", "mint"} => Kept(Head(req'[q].ring))
  BY <1>1 DEF OneRotation, OwnRequest, SameCall
<1>6. /\ req'[SmokeSignOut].kind = req[SmokeSignOut].kind
      /\ req'[SmokeSignOut].cookie = req[SmokeSignOut].cookie
      /\ req'[SmokeSignOut].ring = req[SmokeSignOut].ring
  BY <1>1, ReleaseAssumption DEF OwnRequest, SameCall
<1>7. (candidate \in {"configuration", "migrate", "exec"} => release = 1 /\ Rotates(next))'
  BY <1>2 DEF OneRotation, Rotates
<1>8. \A cookie \in cookies' : cookie.token \in Request => Kept(cookie.key)'
  <2> SUFFICES ASSUME NEW cookie \in cookies', cookie.token \in Request PROVE Kept(cookie.key)'
    OBVIOUS
  <2> QED
    BY <1>2, <1>4 DEF Kept
<1>9. \A q \in Request : req'[q].pc \in {"password", "mint"} => Kept(Head(req[q].ring))'
  BY <1>2, <1>5 DEF Kept
<1> QED
  BY <1>6, <1>7, <1>8, <1>9 DEF OneRotation

LEMMA ArriveRotation ==
  ASSUME WebInv, CleanInv, OneRotation, NEW r \in Request, NEW kind \in Kind, NEW cookie,
         NEW tester, Arrive(r, kind, cookie, tester),
         UNCHANGED <<sessions, ring, cookies, release, candidate, next>>,
         cookie \in cookies \/ (cookie = None /\ kind # "sign-out"),
         r = SmokeSignOut /\ kind = "sign-out" => cookie.key \in Keys(ring)
  PROVE  OneRotation'
<1>1. /\ OwnRequest(r) /\ req'[r].kind = kind /\ req'[r].cookie = cookie
      /\ req'[r].ring = ring
  BY ArriveClean DEF CleanInv
<1>2. Kept(Head(ring))
  BY RingFacts DEF Kept, CleanInv, WebTypes, SessionsTypeOK
<1>3. \A q \in Request : req'[q].pc \in {"password", "mint"} => Kept(Head(req'[q].ring))
  BY <1>1, <1>2 DEF OneRotation, OwnRequest
<1>4. req'[SmokeSignOut].kind = "sign-out" =>
        req'[SmokeSignOut].cookie.key \in Keys(req'[SmokeSignOut].ring)
  BY <1>1, ReleaseAssumption DEF OneRotation, OwnRequest
<1>5. \A q \in Request : req'[q].pc \in {"password", "mint"} => Kept(Head(req[q].ring))'
  BY <1>3 DEF Kept
<1> QED
  BY <1>4, <1>5 DEF OneRotation, Kept, Rotates, Keys

LEMMA CandidateRotation ==
  ASSUME MaxReleases <= 2, WebTypes, OneRotation, CandidateStep
  PROVE  OneRotation'
<1>1. UNCHANGED <<cookies, req>> /\ MaxReleases \in Nat
  BY ReleaseAssumption DEF CandidateStep
<1>2. CASE ExecServer
  <2>1. /\ release = 1 /\ release' = 2 /\ Rotates(next) /\ candidate' = "none"
        /\ ring' = next
    BY <1>2 DEF OneRotation, ExecServer, CandidateStep
  <2>2. Head(ring) \in Keys(next)
    BY <2>1, RotationRetains DEF WebTypes, SessionsTypeOK
  <2>3. ASSUME NEW key, Kept(key) PROVE Kept(key)'
    BY <2>1, <2>2, <2>3 DEF Kept
  <2>4. \A cookie \in cookies : cookie.token \in Request => Kept(cookie.key)'
    BY <2>3 DEF OneRotation
  <2>5. ASSUME NEW r \in Request, req[r].pc \in {"password", "mint"}
        PROVE  Kept(Head(req[r].ring))'
    <3>1. PICK key : key = Head(req[r].ring)
      OBVIOUS
    <3>2. Kept(key)'
      BY <2>3, <2>5, <3>1 DEF OneRotation
    <3> QED
      BY <1>1, <3>1, <3>2
  <2> QED
    BY <1>1, <2>1, <2>4, <2>5 DEF OneRotation
<1>3. CASE ~ExecServer
  <2>1. /\ release' = release /\ ring' = ring
        /\ candidate' \in {"configuration", "migrate", "exec"} =>
             release = 1 /\ Rotates(next')
    BY <1>1, <1>3 DEF CandidateStep, Deploy, CheckDirect, MigrateDeploy, OneRotation
  <2> QED
    BY <1>1, <2>1 DEF OneRotation, Kept, Rotates
<1> QED
  BY <1>2, <1>3

LEMMA SmokeRotation ==
  ASSUME WebInv, CleanInv, OneRotation, SmokeStep
  PROVE  OneRotation'
<1>1. UNCHANGED <<sessions, ring, cookies, release, candidate, next>>
  BY DEF SmokeStep, database, accounts, releases
<1>2. CASE UNCHANGED req
  BY <1>1, <1>2, RotationStays
<1>3. CASE SmokeSends
  <2>1. \/ Arrive(SmokeSignIn, "sign-in", None, First)
        \/ smoke.pc = "deck" /\ Arrive(SmokeDeck, "call", smoke.cookie, None)
        \/ smoke.pc = "sign out" /\ Arrive(SmokeSignOut, "sign-out", smoke.cookie, None)
    BY <1>3 DEF SmokeSends, SignIn, Carry
  <2>2. {SmokeSignIn, SmokeDeck, SmokeSignOut} \subseteq Request
    BY ReleaseAssumption
  <2>3. smoke.pc \in {"deck", "sign out"} => smoke.cookie \in cookies /\ Kept(smoke.cookie.key)
    BY <2>2 DEF CleanInv, SmokeLeaves, SmokeHas, OneRotation
  <2>4. CASE Arrive(SmokeSignIn, "sign-in", None, First)
    BY <1>1, <2>2, <2>4, ArriveRotation DEF Kind
  <2>5. CASE smoke.pc = "deck" /\ Arrive(SmokeDeck, "call", smoke.cookie, None)
    BY <1>1, <2>2, <2>3, <2>5, ArriveRotation DEF Kind
  <2>6. CASE smoke.pc = "sign out" /\ Arrive(SmokeSignOut, "sign-out", smoke.cookie, None)
    BY <1>1, <2>2, <2>3, <2>6, ArriveRotation DEF Kind, Kept
  <2> QED
    BY <2>1, <2>4, <2>5, <2>6
<1> QED
  BY <1>2, <1>3 DEF SmokeStep, SmokeStart, SmokeReads, SmokeReceives, SmokeTimesOut

LEMMA BrowseRotation ==
  ASSUME WebInv, CleanInv, OneRotation, NEW r \in Request \ SmokeRequests, Browse(r),
         UNCHANGED <<release, candidate, next>>
  PROVE  OneRotation'
<1>1. UNCHANGED <<sessions, ring, cookies>> /\ r # SmokeSignOut
  BY DEF Browse, database, accounts, SmokeRequests
<1>2. CASE \E t \in {First, file} \ {None} : SignIn(r, t)
  <2>1. PICK t : Arrive(r, "sign-in", None, t)
    BY <1>2 DEF SignIn
  <2> QED
    BY <1>1, <2>1, ArriveRotation DEF Kind
<1>3. CASE \E cookie \in cookies, kind \in {"call", "sign-out"} : Carry(r, kind, cookie)
  <2>1. PICK cookie \in cookies, kind \in {"call", "sign-out"} : Arrive(r, kind, cookie, None)
    BY <1>3 DEF Carry
  <2> QED
    BY <1>1, <2>1, ArriveRotation DEF Kind
<1> QED
  BY <1>2, <1>3 DEF Browse

LEMMA OneRotationInit == Init => OneRotation
<1> SUFFICES ASSUME Init PROVE OneRotation
  OBVIOUS
<1>1. \A r \in Request : req[r] = NoRequest
  BY DEF Init
<1>2. \A cookie \in cookies : cookie.token \notin Request
  <2>1. /\ cookies = {[token |-> s.token, key |-> ring[Len(ring)]] : s \in sessions}
        /\ \A s \in sessions : s.token = First
    BY DEF Init
  <2> QED
    BY <2>1, SandboxAssumption
<1>3. req[SmokeSignOut].kind # "sign-out"
  BY <1>1, KindAssumption, ReleaseAssumption DEF Kind, NoRequest
<1> QED
  BY <1>1, <1>2, <1>3 DEF Init, OneRotation, NoRequest

LEMMA OneRotationNext ==
  ASSUME MaxReleases <= 2
  PROVE  SandboxInv /\ CleanInv /\ OneRotation /\ [Next]_vars => OneRotation'
<1> SUFFICES ASSUME SandboxInv, CleanInv, OneRotation, [Next]_vars PROVE OneRotation'
  OBVIOUS
<1>1. CASE CommandStep
  <2>1. UNCHANGED <<cookies, req, ring, release, candidate, next>>
    BY <1>1 DEF CommandStep, web, delivery, releases
  <2> QED
    BY <2>1, RotationStays
<1>2. CASE WebStep
  <2>1. UNCHANGED <<release, candidate, next>>
    BY <1>2 DEF WebStep, delivery, releases
  <2> QED
    BY <1>2, <2>1, BrowseRotation, RequestRotation DEF WebStep, SandboxInv
<1>3. CASE EditStep
  <2>1. UNCHANGED <<cookies, req, ring, release, candidate, next>>
    BY <1>3 DEF EditStep, web, delivery, releases
  <2> QED
    BY <2>1, RotationStays
<1>4. CASE CandidateStep
  BY <1>4, CandidateRotation DEF CleanInv
<1>5. CASE SmokeStep
  BY <1>5, SmokeRotation DEF SandboxInv
<1>6. CASE UNCHANGED vars
  <2>1. UNCHANGED <<cookies, req, ring, release, candidate, next>>
    BY <1>6 DEF vars, web, delivery, releases
  <2> QED
    BY <2>1, RotationStays
<1> QED
  BY <1>1, <1>2, <1>3, <1>4, <1>5, <1>6 DEF Next

\* A smoke that is over and has not reported a failed cleanup has left no session
\* of its own, whatever answers got lost, while a release is deployed and a key
\* rotated at most once (scripts/release-smoke.mjs).
THEOREM AlwaysSmokeCleansUp ==
  ASSUME MaxReleases <= 2
  PROVE  Spec => []SmokeCleansUp
<1>1. CleanInv /\ OneRotation => SmokeCleansUp
  <2> SUFFICES ASSUME CleanInv, OneRotation, smoke.pc = "over", smoke.cookie # None,
                      ~smoke.cleanupFailed
               PROVE  smoke.cookie.token \notin Tokens(sessions)
    BY DEF SmokeCleansUp
  <2>1. /\ req[SmokeSignOut].kind = "sign-out" /\ req[SmokeSignOut].cookie = smoke.cookie
        /\ req[SmokeSignOut].pc = "done" /\ req[SmokeSignOut].answer = 200
    BY DEF CleanInv, SmokeLeaves, Leaving
  <2>2. SessionOf(SmokeSignOut) = {}
    BY <2>1, ReleaseAssumption DEF CleanInv, SignedOut, OneRotation
  <2> QED
    BY <2>1, <2>2 DEF SessionOf, Tokens
<1>2. SandboxInv /\ CleanInv /\ OneRotation /\ [Next]_vars => OneRotation'
  BY OneRotationNext
<1> QED
  BY <1>1, <1>2, OneRotationInit, SandboxInvariant, SignOutInvariant, PTL DEF Spec

-----------------------------------------------------------------------------
(* Types                                                                   *)

\* What the invariants before say nothing of.
TypesInv ==
  /\ tables \in BOOLEAN /\ history \in {"none", "behind", "failed", "current"}
  /\ grants \subseteq Right
  /\ credential \in Tester \cup {None} /\ (credential # None => user # None)
  /\ sessions \subseteq Session
  /\ \A c \in Command : tx[c] \subseteq Row /\ cmd[c].credential \in Tester \cup {None}
  /\ faults \in 0..MaxFaults /\ lost \in 0..MaxLost
  /\ release \in 1..MaxReleases
  /\ candidate \in {"none", "configuration", "migrate", "exec", "blocked"}
  /\ candidate \in {"configuration", "migrate", "exec"} => release < MaxReleases
  /\ deleted \in [Command -> SUBSET Fixture]

LEMMA CommandSchema ==
  ASSUME TypesInv, NEW c \in Command, TesterStep(c) \/ DataStep(c)
  PROVE  /\ tables' \in BOOLEAN /\ history' \in {"none", "behind", "failed", "current"}
         /\ grants' \subseteq Right
<1>1. \/ UNCHANGED schema \/ DeployOK \/ DeployFails \/ DropSchema
      \/ /\ UNCHANGED <<tables, history>>
         /\ \E right \in Right : grants' \in {grants, grants \cup {right}}
  <2>1. CASE TesterStep(c)
    BY <2>1 DEF TesterStep, FindForProvision, OpenDelivery, InsertUser, InsertAccount,
       CommitProvision, FindForRevoke, DeleteAccounts, DeleteSessions, CommitRevoke, Start,
       Fail, Kill, database
  <2>2. CASE GrantUsage(c) \/ GrantTables(c) \/ AlterDefaults(c)
    BY <2>2 DEF GrantUsage, GrantTables, AlterDefaults, Right
  <2>3. CASE DataStep(c) /\ ~(GrantUsage(c) \/ GrantTables(c) \/ AlterDefaults(c))
    BY <2>3 DEF DataStep, Migrate, FindTester, CheckRole, ReadAccount, Drop, Replay,
       RestoreUser, RestoreAccount, CommitRestore, LockFixtures, InsertDeck, Reconcile,
       InsertCards, CommitFixtures
  <2> QED
    BY <2>1, <2>2, <2>3
<1>2. CASE UNCHANGED schema
  BY <1>2 DEF TypesInv, schema
<1>3. CASE DeployOK
  BY <1>3 DEF TypesInv, DeployOK, Right
<1>4. CASE DeployFails
  BY <1>4 DEF TypesInv, DeployFails
<1>5. CASE DropSchema
  BY <1>5 DEF DropSchema
<1>6. CASE /\ UNCHANGED <<tables, history>>
           /\ \E right \in Right : grants' \in {grants, grants \cup {right}}
  BY <1>6 DEF TypesInv
<1> QED
  BY <1>1, <1>2, <1>3, <1>4, <1>5, <1>6

LEMMA CommandAccounts ==
  ASSUME NEW c \in Command, TesterStep(c) \/ DataStep(c)
  PROVE  \/ UNCHANGED <<user, credential>>
         \/ CommitProvision(c) \/ CommitRestore(c) \/ CommitRevoke(c) \/ Drop(c)
<1>1. CASE TesterStep(c)
  BY <1>1 DEF TesterStep, FindForProvision, OpenDelivery, InsertUser, InsertAccount,
     FindForRevoke, DeleteAccounts, DeleteSessions, Start, Fail, Kill, database, accounts
<1>2. CASE DataStep(c)
  BY <1>2 DEF DataStep, Migrate, FindTester, CheckRole, ReadAccount, Replay,
     RestoreUser, RestoreAccount, GrantUsage, GrantTables, AlterDefaults, LockFixtures,
     InsertDeck, Reconcile, InsertCards, CommitFixtures, accounts
<1> QED
  BY <1>1, <1>2

LEMMA CommandCredential ==
  ASSUME OperatorInv, DataInv, TypesInv, NEW c \in Command, TesterStep(c) \/ DataStep(c)
  PROVE  credential' \in Tester \cup {None} /\ (credential' # None => user' # None)
<1>1. CASE CommitProvision(c)
  BY <1>1, TesterNames DEF CommitProvision, Tester
<1>2. CASE CommitRestore(c)
  <2>1. cmd[c].kind \in {"seed", "reset"} /\ cmd[c].pc = "commitRestore"
    BY <1>2 DEF CommitRestore, Data
  <2>2. cmd[c].user \in Tester
    BY <2>1 DEF DataInv, CommandOK, Knows, Resetting, Rebuilding
  <2> QED
    BY <1>2, <2>2, TesterNames DEF CommitRestore, TypesInv
<1>3. CASE CommitRevoke(c)
  BY <1>3 DEF CommitRevoke, TypesInv
<1>4. CASE Drop(c)
  BY <1>4 DEF Drop, DropSchema
<1>5. CASE UNCHANGED <<user, credential>>
  BY <1>5 DEF TypesInv
<1> QED
  BY <1>1, <1>2, <1>3, <1>4, <1>5, CommandAccounts

LEMMA CommandRead ==
  ASSUME CommandShape, NEW c \in Command, TesterStep(c) \/ DataStep(c)
  PROVE  /\ OwnRecord(c) /\ cmd'[c].credential \in {cmd[c].credential, credential}
         /\ cmd'[c].kind = cmd[c].kind \/ cmd'[c].pc \in {"migrate", "find"}
<1>1. \/ \E pc : Go(c, pc) \/ SetCredential(c, credential, pc)
      \/ \E pc, v : SetUser(c, v, pc) \/ SetCreated(c, pc, v)
      \/ \E pc \in {"migrate", "find"} : \E k : SetKind(c, k, pc)
  <2>1. CASE TesterStep(c)
    BY <2>1 DEF TesterStep, FindForProvision, OpenDelivery, InsertUser, InsertAccount,
       CommitProvision, FindForRevoke, DeleteAccounts, DeleteSessions, CommitRevoke, Start,
       Fail, Kill, Throw, SetUser, SetCreated, SetKind
  <2>2. CASE DataStep(c)
    BY <2>2 DEF DataStep, Migrate, FindTester, CheckRole, ReadAccount, Drop, Replay, RestoreUser,
       RestoreAccount, CommitRestore, GrantUsage, GrantTables, AlterDefaults, LockFixtures,
       InsertDeck, Reconcile, InsertCards, CommitFixtures, Throw, SetUser, SetCredential
  <2> QED
    BY <2>1, <2>2
<1> QED
  BY <1>1, GoEffect, CredentialEffect, UserEffect, CreatedEffect, KindEffect DEF SameFound

LEMMA CommandHolds ==
  ASSUME CommandShape, TypesInv, NEW c \in Command, TesterStep(c) \/ DataStep(c)
  PROVE  tx'[c] \subseteq Row
<1>1. tx[c] \subseteq Row
  BY DEF TypesInv
<1>2. ASSUME \/ Throw(c) \/ Release(c) \/ UNCHANGED tx
             \/ \E rows : rows \subseteq Row /\ Hold(c, rows)
      PROVE  tx'[c] \subseteq Row
  <2>1. "begun" \in Row
    BY DEF Row
  <2>2. ASSUME NEW rows, rows \subseteq Row, Hold(c, rows) PROVE tx'[c] \subseteq Row
    BY <1>1, <2>1, <2>2, HoldEffect
  <2>3. ASSUME Throw(c) PROVE Release(c)
    BY <2>3 DEF Throw, Release
  <2> QED
    BY <1>1, <1>2, <2>2, <2>3, ReleaseEffect
<1>3. CASE TesterStep(c)
  <2>1. {"user"} \subseteq Row /\ {"account"} \subseteq Row /\ {} \subseteq Row
    BY DEF Row
  <2>2. Tokens(SessionsOf(cmd[c].user)) \subseteq Row
    BY DEF TypesInv, Tokens, SessionsOf, Session, Row
  <2>3. \/ Throw(c) \/ Release(c) \/ UNCHANGED tx
        \/ Hold(c, {"user"}) \/ Hold(c, {"account"}) \/ Hold(c, {})
        \/ Hold(c, Tokens(SessionsOf(cmd[c].user)))
    BY <1>3 DEF TesterStep, FindForProvision, OpenDelivery, InsertUser, InsertAccount,
       CommitProvision, FindForRevoke, DeleteAccounts, DeleteSessions, CommitRevoke, Start,
       Fail, Kill, database
  <2> QED
    BY <1>2, <2>1, <2>2, <2>3
<1>4. CASE DataStep(c)
  <2>1. /\ {"user"} \subseteq Row /\ {"account"} \subseteq Row
        /\ {"deck"} \subseteq Row /\ {} \subseteq Row
    BY DEF Row
  <2>2. /\ Present \cup PresentCards \subseteq Row
        /\ {k \in Fixture : cards[k] = "absent"} \subseteq Row
    BY DEF Present, PresentCards, Row
  <2>3. \/ Throw(c) \/ Release(c) \/ UNCHANGED tx
        \/ Hold(c, {"user"}) \/ Hold(c, {"account"}) \/ Hold(c, {"deck"}) \/ Hold(c, {})
        \/ Hold(c, Present \cup PresentCards) \/ Hold(c, {k \in Fixture : cards[k] = "absent"})
    BY <1>4 DEF DataStep, Migrate, FindTester, CheckRole, ReadAccount, Drop, Replay, RestoreUser,
       RestoreAccount, CommitRestore, GrantUsage, GrantTables, AlterDefaults, LockFixtures,
       InsertDeck, Reconcile, InsertCards, CommitFixtures
  <2> QED
    BY <1>2, <2>1, <2>2, <2>3
<1> QED
  BY <1>3, <1>4

LEMMA CommandFaults ==
  ASSUME TypesInv, NEW c \in Command, TesterStep(c) \/ DataStep(c)
  PROVE  faults' \in 0..MaxFaults
<1>1. faults' = faults \/ (faults < MaxFaults /\ faults' = faults + 1)
  <2>1. CASE TesterStep(c)
    BY <2>1 DEF TesterStep, FindForProvision, OpenDelivery, InsertUser, InsertAccount,
       CommitProvision, FindForRevoke, DeleteAccounts, DeleteSessions, CommitRevoke, Start,
       Fail, Kill
  <2>2. CASE DataStep(c)
    BY <2>2 DEF DataStep, Migrate, FindTester, CheckRole, ReadAccount, Drop, Replay, RestoreUser,
       RestoreAccount, CommitRestore, GrantUsage, GrantTables, AlterDefaults, LockFixtures,
       InsertDeck, Reconcile, InsertCards, CommitFixtures
  <2> QED
    BY <2>1, <2>2
<1> QED
  BY <1>1, OperatorAssumption DEF TypesInv

LEMMA CommandTypes ==
  ASSUME OperatorInv, Owned, DataInv, DeliveryInv, TypesInv, CommandStep
  PROVE  TypesInv'
<1>1. PICK c \in Command : TesterStep(c) \/ DataStep(c)
  BY DEF CommandStep
<1>2. UNCHANGED <<lost, release, candidate, deleted>> /\ sessions' \subseteq sessions
  BY CommandKeeps DEF CommandStep, delivery, releases, Shrinks
<1>3. ASSUME NEW d \in Command
      PROVE  tx'[d] \subseteq Row /\ cmd'[d].credential \in Tester \cup {None}
  BY <1>1, CommandRead, CommandHolds, StepRows DEF OperatorInv, TypesInv, OwnRecord, OwnRows
<1>4. faults' \in 0..MaxFaults
  BY <1>1, CommandFaults
<1>5. credential' \in Tester \cup {None} /\ (credential' # None => user' # None)
  BY <1>1, CommandCredential
<1>6. /\ tables' \in BOOLEAN /\ history' \in {"none", "behind", "failed", "current"}
      /\ grants' \subseteq Right
  BY <1>1, CommandSchema
<1> QED
  BY <1>2, <1>3, <1>4, <1>5, <1>6 DEF TypesInv

LEMMA TypesInvNext ==
  SandboxInv /\ DeliveryInv /\ DataInv /\ TypesInv /\ [Next]_vars => TypesInv'
<1> SUFFICES ASSUME SandboxInv, DeliveryInv, DataInv, TypesInv, [Next]_vars PROVE TypesInv'
  OBVIOUS
<1>1. CASE CommandStep
  BY <1>1, CommandTypes DEF SandboxInv
<1>2. CASE WebStep
  <2>1. UNCHANGED <<lost, release, candidate, cmd, faults, deleted>>
    BY <1>2 DEF WebStep, delivery, releases, operator
  <2>2. CASE \E r \in Request : RequestStep(r)
    <3>1. PICK r \in Request : RequestStep(r)
      BY <2>2
    <3>2. UNCHANGED <<tables, history, grants, user, credential, tx>>
      BY <3>1, RequestRows DEF schema
    <3>3. sessions' \subseteq sessions \cup {[token |-> r, user |-> user]}
      BY <3>1, RequestSessions DEF Mints
    <3>4. sessions' \subseteq Session
      <4>1. \A s \in sessions' : s.user = user /\ s.user # None
        BY <3>1, RequestStepKeeps, <3>2 DEF SandboxInv, Owned
      <4>2. ASSUME NEW s \in sessions' PROVE s \in Session
        <5>1. user \in Tester
          BY <4>1 DEF DataInv, RowsOK
        <5> QED
          BY <3>3, <5>1 DEF TypesInv, Session, Token
      <4> QED
        BY <4>2
    <3> QED
      BY <2>1, <3>2, <3>4 DEF TypesInv
  <2>3. CASE \E r \in (Request \ SmokeRequests) \cap cast : Browse(r)
    BY <2>1, <2>3 DEF Browse, database, schema, accounts, TypesInv
  <2> QED
    BY <1>2, <2>2, <2>3 DEF WebStep
<1>3. CASE EditStep
  <2>1. deleted' \in [Command -> SUBSET Fixture]
    BY <1>3 DEF EditStep, TypesInv
  <2>2. UNCHANGED <<tables, history, grants, user, credential, sessions, tx, cmd, faults,
                    lost, release, candidate>>
    BY <1>3 DEF EditStep, TesterEdits, delivery, releases, operator, schema, accounts
  <2> QED
    BY <2>1, <2>2 DEF TypesInv
<1>4. CASE CandidateStep /\ UNCHANGED <<deleted, operator>>
  <2>1. /\ UNCHANGED <<user, credential, sessions, tx, cmd, faults, lost, deleted>>
        /\ UNCHANGED schema \/ DeployOK \/ DeployFails
    BY <1>4 DEF CandidateStep, Deploy, CheckDirect, MigrateDeploy, ExecServer, accounts, operator
  <2>2. grants' = grants
    BY <2>1, DeployKeepsGrants DEF SandboxInv, OperatorInv, schema
  <2>3. tables' \in BOOLEAN /\ history' \in {"none", "behind", "failed", "current"}
    BY <2>1 DEF DeployOK, DeployFails, schema, TypesInv
  <2>4. /\ release' \in 1..MaxReleases
        /\ candidate' \in {"none", "configuration", "migrate", "exec", "blocked"}
        /\ candidate' \in {"configuration", "migrate", "exec"} => release' < MaxReleases
    <3>1. CASE Deploy \/ CheckDirect \/ MigrateDeploy
      BY <3>1 DEF Deploy, CheckDirect, MigrateDeploy, TypesInv
    <3>2. CASE ExecServer
      BY <3>2, ReleaseAssumption DEF ExecServer, TypesInv
    <3> QED
      BY <1>4, <3>1, <3>2 DEF CandidateStep
  <2> QED
    BY <2>1, <2>2, <2>3, <2>4 DEF TypesInv
<1>5. CASE SmokeStep /\ UNCHANGED <<deleted, operator>>
  <2>1. UNCHANGED <<tables, history, grants, user, credential, sessions, tx, cmd, faults,
                    release, candidate, deleted>>
    BY <1>5 DEF SmokeStep, database, schema, accounts, operator, releases
  <2>2. lost' \in 0..MaxLost
    <3>1. lost' = lost \/ (lost < MaxLost /\ lost' = lost + 1)
      BY <1>5 DEF SmokeStep, SmokeStart, SmokeReads, SmokeSends, SmokeReceives, SmokeTimesOut
    <3> QED
      BY <3>1, ReleaseAssumption DEF TypesInv
  <2> QED
    BY <2>1, <2>2 DEF TypesInv
<1>6. CASE UNCHANGED vars
  BY <1>6 DEF vars, database, schema, accounts, operator, delivery, releases, TypesInv
<1> QED
  BY <1>1, <1>2, <1>3, <1>4, <1>5, <1>6 DEF Next

LEMMA TypesInvInit == Init => TypesInv
<1> SUFFICES ASSUME Init PROVE TypesInv
  OBVIOUS
<1>1. \A c \in Command : tx[c] = {} /\ cmd[c] = Idle
  BY DEF Init
<1>2. user \in Tester \cup {None} /\ credential = user
  BY DEF Init, Tester
<1>3. sessions \subseteq Session
  BY <1>2 DEF Init, Session, Token
<1> QED
  BY <1>1, <1>2, <1>3, OperatorAssumption, ReleaseAssumption
     DEF Init, TypesInv, Idle, Right, Tester

\* The sandbox's variables keep their types, a credential has its user, and the
\* sessions are the user's.
THEOREM SandboxTypes == Spec => []TypeOK
<1>1. SandboxInv /\ DataInv /\ CleanInv /\ TypesInv => TypeOK
  <2> SUFFICES ASSUME SandboxInv, DataInv, CleanInv, TypesInv PROVE TypeOK
    OBVIOUS
  <2>1. DbTypeOK
    <3>1. tx \in [Command -> SUBSET Row]
      BY DEF SandboxInv, OperatorInv, CommandShape, TypesInv
    <3> QED
      BY <3>1 DEF DataInv, RowsOK, TypesInv, DbTypeOK
  <2>2. ReleaseTypeOK
    BY DEF CleanInv, WebTypes, SessionsTypeOK, SmokeLeaves, SmokeHas, TypesInv, ReleaseTypeOK
  <2> QED
    BY <2>1, <2>2
       DEF TypeOK, CleanInv, WebTypes, TypesInv, SandboxInv, OperatorInv, FileOwned, Owned
<1> QED
  BY <1>1, TypesInvInit, TypesInvNext, SandboxInvariant, DeliveryInvariant, DataInvariant,
     SignOutInvariant, PTL DEF Spec

-----------------------------------------------------------------------------
(* Whose password the tester has                                           *)

\* A password comes from a provision that has committed it and ended.
Known(u) == u \in Command => cmd[u].kind = "provision" /\ cmd[u].pc \in {"0", "1"}

\* A run that has delivered has its file for good.
PasswordInv ==
  /\ \A c \in Command : cmd[c].kind = "provision" /\ cmd[c].pc = "0" => file = c
  /\ Known(credential) /\ \A c \in Command : Known(cmd[c].credential)

LEMMA KnownStays ==
  ASSUME NEW c \in Command, TesterStep(c) \/ DataStep(c), OwnRecord(c), NEW u, Known(u)
  PROVE  Known(u)'
<1>1. u # c \/ u \notin Command
  BY EndedStops DEF Known
<1> QED
  BY <1>1 DEF Known, OwnRecord

\* No other run takes the file away: it has none, or one that is its own.
LEMMA FileOfOthers ==
  ASSUME CommandShape, DeliveryInv, NEW c \in Command, TesterStep(c) \/ DataStep(c),
         NEW d \in Command \ {c}, file = d
  PROVE  file' = d
<1>1. cmd[c].pc # "1" /\ HoldsFile(c) /\ d # None
  BY EndedStops, SandboxAssumption DEF DeliveryInv
<1>2. CASE Throw(c)
  BY <1>1, <1>2, ThrowEffect DEF HoldsFile
<1>3. CASE ~Throw(c)
  <2>1. Leaves(c) \/ Opens(c) \/ Delivers(c)
    BY <1>3, TesterLeaves, DataLeaves
  <2> QED
    BY <1>1, <2>1 DEF Leaves, Opens, Delivers
<1> QED
  BY <1>2, <1>3

LEMMA CommandPassword ==
  ASSUME SandboxInv, DeliveryInv, PasswordInv, NEW c \in Command, TesterStep(c) \/ DataStep(c)
  PROVE  PasswordInv'
<1>1. CommandShape
  BY DEF SandboxInv, OperatorInv
<1>2. /\ OwnRecord(c) /\ cmd'[c].credential \in {cmd[c].credential, credential}
      /\ cmd'[c].kind = cmd[c].kind \/ cmd'[c].pc \in {"migrate", "find"}
  BY <1>1, CommandRead
<1>3. ASSUME NEW d \in Command, cmd'[d].kind = "provision", cmd'[d].pc = "0"
      PROVE  file' = d
  <2>1. CASE d = c
    <3>1. cmd[c].kind = "provision" /\ cmd[c].pc # "0"
      BY <1>2, <1>3, <2>1, EndedStops
    <3> QED
      BY <1>3, <2>1, <3>1, ProvisionDelivers
  <2>2. CASE d # c
    <3>1. file = d
      BY <1>2, <1>3, <2>2 DEF OwnRecord, PasswordInv
    <3> QED
      BY <1>1, <2>2, <3>1, FileOfOthers
  <2> QED
    BY <2>1, <2>2
<1>4. Known(credential)'
  <2>1. CASE CommitProvision(c)
    <3>1. /\ cmd[c].kind = "provision" /\ credential' = c
          /\ Throw(c) \/ SetCreated(c, "0", FALSE)
      BY <2>1 DEF CommitProvision, At, SetCreated
    <3> QED
      BY <1>1, <3>1, ThrowEffect, CreatedEffect DEF Known
  <2>2. CASE credential' \in {None, credential, cmd[c].credential}
    <3>1. ~(None \in Command)
      BY SandboxAssumption
    <3>2. ASSUME NEW u \in {None, credential, cmd[c].credential} PROVE Known(u)'
      BY <1>2, <3>1, <3>2, KnownStays DEF PasswordInv, Known
    <3>3. PICK u \in {None, credential, cmd[c].credential} : credential' = u
      BY <2>2
    <3> QED
      BY <3>2, <3>3 DEF Known
  <2>3. CommitProvision(c) \/ credential' \in {None, credential, cmd[c].credential}
    BY CommandAccounts DEF CommitRestore, CommitRevoke, Drop, DropSchema
  <2> QED
    BY <2>1, <2>2, <2>3
<1>5. ASSUME NEW d \in Command PROVE Known(cmd[d].credential)'
  <2>1. ASSUME NEW u, Known(u), cmd'[d].credential = u PROVE Known(cmd[d].credential)'
    <3>1. Known(u)'
      BY <1>2, <2>1, KnownStays
    <3> QED
      BY <2>1, <3>1 DEF Known
  <2>2. cmd'[d].credential \in {cmd[d].credential, credential}
    BY <1>2 DEF OwnRecord
  <2> QED
    BY <2>1, <2>2 DEF PasswordInv
<1> QED
  BY <1>3, <1>4, <1>5 DEF PasswordInv

\* The password of the tester, and the one a reset has in memory, is of a run
\* that has delivered or failed, and what is delivered stays there.
THEOREM PasswordInvariant == Spec => []PasswordInv
<1>1. Init => PasswordInv
  <2> SUFFICES ASSUME Init PROVE PasswordInv
    OBVIOUS
  <2>1. credential \in {First, None} /\ \A c \in Command : cmd[c] = Idle
    BY DEF Init
  <2> QED
    BY <2>1, SandboxAssumption DEF PasswordInv, Known, Idle
<1>2. SandboxInv /\ DeliveryInv /\ PasswordInv /\ [Next]_vars => PasswordInv'
  <2> SUFFICES ASSUME SandboxInv, DeliveryInv, PasswordInv, [Next]_vars PROVE PasswordInv'
    OBVIOUS
  <2>1. CASE CommandStep
    BY <2>1, CommandPassword DEF CommandStep
  <2>2. CASE UNCHANGED <<cmd, file, credential>>
    BY <2>2 DEF PasswordInv, Known
  <2> QED
    BY <2>1, <2>2, OutsideCommands
<1> QED
  BY <1>1, <1>2, SandboxInvariant, DeliveryInvariant, PTL DEF Spec

\* A failed provision leaves no delivery file, nobody takes away the file of a
\* run that has delivered, and a password that is in no file is that of a run
\* which reported failure when its COMMIT was not acknowledged.
THEOREM AlwaysDeliveryFile == Spec => []DeliveryFile
<1>1. SandboxInv /\ PasswordInv => DeliveryFile
  <2> SUFFICES ASSUME SandboxInv, PasswordInv PROVE DeliveryFile
    OBVIOUS
  <2>1. file # None => cmd[file].pc # "1"
    BY DEF SandboxInv, OperatorInv, FileOwned
  <2> QED
    BY <2>1 DEF PasswordInv, Known, DeliveryFile
<1> QED
  BY <1>1, SandboxInvariant, PasswordInvariant, PTL

-----------------------------------------------------------------------------
(* What a reset that has not succeeded leaves behind                       *)

\* From one call of a reset to the next, when it neither reads the account, nor
\* fails, nor is killed.
Path ==
  {<<"find", "role">>, <<"role", "read">>, <<"drop", "replay">>, <<"replay", "restoreUser">>,
   <<"restoreUser", "restoreAccount">>, <<"restoreAccount", "commitRestore">>,
   <<"commitRestore", "usage">>, <<"usage", "grant">>, <<"grant", "defaults">>,
   <<"defaults", "lock">>, <<"lock", "deck">>, <<"deck", "reconcile">>,
   <<"reconcile", "cards">>, <<"cards", "commit">>, <<"commit", "0">>}

LEMMA ResetMoves ==
  ASSUME CommandShape, NEW c \in Command, TesterStep(c) \/ DataStep(c),
         cmd[c].kind = "reset", cmd[c].pc # "idle"
  PROVE  /\ cmd'[c].kind = "reset"
         /\ \/ cmd'[c].pc \in {"1", "killed"}
            \/ cmd[c].pc = "read" /\ cmd'[c].pc = "drop" /\ cmd'[c].credential # None
            \/ /\ <<cmd[c].pc, cmd'[c].pc>> \in Path
               /\ cmd'[c].credential = cmd[c].credential
               /\ cmd[c].pc = "replay" => DeployOK
<1>1. CASE Throw(c)
  BY <1>1, ThrowEffect
<1>2. CASE TesterStep(c) /\ ~Throw(c)
  <2>1. Kill(c)
    BY <1>2 DEF TesterStep, At, FindForProvision, OpenDelivery, InsertUser, InsertAccount,
       CommitProvision, FindForRevoke, DeleteAccounts, DeleteSessions, CommitRevoke, Start, Fail
  <2> QED
    BY <2>1, GoEffect DEF Kill
<1>3. CASE DataStep(c) /\ ~Throw(c)
  <2>1. ~Migrate(c)
    BY DEF Migrate, At
  <2>2. CASE FindTester(c)
    <3>1. cmd[c].pc = "find" /\ SetUser(c, user, "role")
      BY <1>3, <2>2 DEF FindTester, Data, SetUser
    <3> QED
      BY <3>1, UserEffect DEF Path
  <2>3. CASE ReadAccount(c)
    <3>1. cmd[c].pc = "read" /\ credential # None /\ SetCredential(c, credential, "drop")
      BY <1>3, <2>3 DEF ReadAccount, Data, SetCredential
    <3> QED
      BY <3>1, CredentialEffect
  <2>4. ASSUME NEW pc, Go(c, pc), <<cmd[c].pc, pc>> \in Path, cmd[c].pc = "replay" => DeployOK
        PROVE  /\ cmd'[c].kind = "reset" /\ <<cmd[c].pc, cmd'[c].pc>> \in Path
               /\ cmd'[c].credential = cmd[c].credential
               /\ cmd[c].pc = "replay" => DeployOK
    BY <2>4, GoEffect DEF SameFound
  <2>5. CASE CheckRole(c) \/ Drop(c) \/ Replay(c) \/ RestoreUser(c) \/ RestoreAccount(c)
    <3>1. \E pc : /\ Go(c, pc) /\ <<cmd[c].pc, pc>> \in Path
                  /\ cmd[c].pc = "replay" => DeployOK
      BY <1>3, <2>5 DEF CheckRole, Drop, Replay, RestoreUser, RestoreAccount, Data, Path
    <3> QED
      BY <2>4, <3>1
  <2>6. CASE CommitRestore(c) \/ GrantUsage(c) \/ GrantTables(c) \/ AlterDefaults(c)
    <3>1. \E pc : /\ Go(c, pc) /\ <<cmd[c].pc, pc>> \in Path
                  /\ cmd[c].pc = "replay" => DeployOK
      BY <1>3, <2>6 DEF CommitRestore, GrantUsage, GrantTables, AlterDefaults, Data, Path
    <3> QED
      BY <2>4, <3>1
  <2>7. CASE LockFixtures(c) \/ InsertDeck(c) \/ Reconcile(c) \/ InsertCards(c)
             \/ CommitFixtures(c)
    <3>1. \E pc : /\ Go(c, pc) /\ <<cmd[c].pc, pc>> \in Path
                  /\ cmd[c].pc = "replay" => DeployOK
      BY <1>3, <2>7
         DEF LockFixtures, InsertDeck, Reconcile, InsertCards, CommitFixtures, Data, Path
    <3> QED
      BY <2>4, <3>1
  <2> QED
    BY <1>3, <2>1, <2>2, <2>3, <2>5, <2>6, <2>7 DEF DataStep
<1> QED
  BY <1>1, <1>2, <1>3

\* A reset that has ended without success, or will not do without the replay.
Stranded(c) == cmd[c].kind = "reset" /\ cmd[c].pc \in {"replay", "1", "killed"}

MigratedInv ==
  release > 1 \/ candidate = "exec" =>
    history = "current" \/ \E c \in Command : Stranded(c)

LEMMA StrandedStays ==
  ASSUME CommandShape, NEW c \in Command, TesterStep(c) \/ DataStep(c), OwnRecord(c),
         NEW d \in Command, Stranded(d)
  PROVE  Stranded(d)' \/ history' = "current"
<1>1. CASE d = c
  <2>1. cmd[c].kind = "reset" /\ cmd[c].pc = "replay"
    BY <1>1, EndedStops DEF Stranded
  <2>2. cmd'[c].kind = "reset" /\ (cmd'[c].pc \in {"1", "killed"} \/ DeployOK)
    BY <2>1, ResetMoves
  <2> QED
    BY <1>1, <2>2 DEF Stranded, DeployOK
<1>2. CASE d # c
  BY <1>2 DEF Stranded, OwnRecord
<1> QED
  BY <1>1, <1>2

LEMMA CommandHistory ==
  ASSUME NEW c \in Command, TesterStep(c) \/ DataStep(c)
  PROVE  history' = history \/ DeployOK \/ DeployFails \/ Drop(c)
<1>1. CASE TesterStep(c)
  BY <1>1 DEF TesterStep, FindForProvision, OpenDelivery, InsertUser, InsertAccount,
     CommitProvision, FindForRevoke, DeleteAccounts, DeleteSessions, CommitRevoke, Start,
     Fail, Kill, database, schema
<1>2. CASE DataStep(c)
  BY <1>2 DEF DataStep, Migrate, FindTester, CheckRole, ReadAccount, Replay, RestoreUser,
     RestoreAccount, CommitRestore, GrantUsage, GrantTables, AlterDefaults, LockFixtures,
     InsertDeck, Reconcile, InsertCards, CommitFixtures, schema
<1> QED
  BY <1>1, <1>2

LEMMA DropEffect ==
  ASSUME OperatorInv, NEW c \in Command, Drop(c)
  PROVE  cmd'[c].kind = "reset" /\ cmd'[c].pc = "replay"
<1>1. cmd[c].kind = "reset" /\ Go(c, "replay")
  BY DEF Drop, Data, OperatorInv, HistoryKept, Resetting
<1> QED
  BY <1>1, GoEffect DEF OperatorInv

LEMMA CommandMigrated ==
  ASSUME SandboxInv, MigratedInv, CommandStep
  PROVE  MigratedInv'
<1>1. PICK c \in Command : TesterStep(c) \/ DataStep(c)
  BY DEF CommandStep
<1>2. UNCHANGED <<release, candidate>> /\ OperatorInv /\ CommandShape
  BY DEF CommandStep, delivery, releases, SandboxInv, OperatorInv
<1>3. CASE Drop(c)
  BY <1>2, <1>3, DropEffect DEF MigratedInv, Stranded
<1>4. ASSUME NEW d \in Command, Stranded(d) PROVE MigratedInv'
  <2>1. OwnRecord(c)
    BY <1>1, <1>2, CommandRead
  <2> QED
    BY <1>1, <1>2, <1>4, <2>1, StrandedStays DEF MigratedInv
<1>5. CASE history = "current" /\ ~Drop(c)
  <2>1. history' = "current"
    BY <1>1, <1>5, CommandHistory DEF DeployOK, DeployFails
  <2> QED
    BY <2>1 DEF MigratedInv
<1>6. CASE ~(release > 1 \/ candidate = "exec")
  BY <1>2, <1>6 DEF MigratedInv
<1> QED
  BY <1>3, <1>4, <1>5, <1>6 DEF MigratedInv

LEMMA CandidateMigrated ==
  ASSUME MigratedInv, CandidateStep, UNCHANGED cmd
  PROVE  MigratedInv'
<1>1. ASSUME NEW d \in Command, Stranded(d) PROVE Stranded(d)'
  BY <1>1 DEF Stranded
<1>2. CASE Deploy \/ CheckDirect
  BY <1>1, <1>2 DEF Deploy, CheckDirect, schema, MigratedInv
<1>3. CASE MigrateDeploy
  BY <1>1, <1>3 DEF MigrateDeploy, DeployOK, DeployFails, MigratedInv
<1>4. CASE ExecServer
  BY <1>1, <1>4 DEF ExecServer, schema, MigratedInv
<1> QED
  BY <1>2, <1>3, <1>4 DEF CandidateStep

\* A candidate that cannot bring the migrations up to date never comes to serve,
\* whoever broke them and however often it is started (set -e in
\* scripts/release/entrypoint.sh); only a reset that has dropped the schema and
\* stopped takes the schema away under a release that serves.
THEOREM AlwaysMigrated == Spec => []MigratedBeforeServing
<1>1. Init => MigratedInv
  BY DEF Init, MigratedInv
<1>2. SandboxInv /\ MigratedInv /\ [Next]_vars => MigratedInv'
  <2> SUFFICES ASSUME SandboxInv, MigratedInv, [Next]_vars PROVE MigratedInv'
    OBVIOUS
  <2>1. CASE CommandStep
    BY <2>1, CommandMigrated
  <2>2. CASE UNCHANGED <<cmd, history, release, candidate>>
    BY <2>2 DEF MigratedInv, Stranded
  <2> QED
    BY <2>1, <2>2, OutsideCommands, CandidateMigrated
<1>3. MigratedInv => MigratedBeforeServing
  BY DEF MigratedInv, Stranded, MigratedBeforeServing
<1> QED
  BY <1>1, <1>2, <1>3, SandboxInvariant, PTL DEF Spec

-----------------------------------------------------------------------------
(* The rights that are missing                                             *)

\* A reset that has dropped the schema and has not succeeded.
Cut(c) ==
  /\ cmd[c].kind = "reset"
  /\ cmd[c].pc \notin {"idle", "find", "role", "read", "drop", "0"}

LEMMA CutStays ==
  ASSUME OperatorInv, DataInv, NEW c \in Command, TesterStep(c) \/ DataStep(c), OwnRecord(c),
         NEW d \in Command, Cut(d), ~RuntimeOK
  PROVE  Cut(d)'
<1>1. CASE d = c
  <2>1. /\ cmd'[c].kind = "reset"
        /\ cmd'[c].pc \in {"1", "killed"} \/ <<cmd[c].pc, cmd'[c].pc>> \in Path
    BY <1>1, ResetMoves DEF OperatorInv, Cut
  <2>2. cmd[c].pc # "commit"
    BY <1>1 DEF Cut, DataInv, CommandOK, Rebuilt, Restored, Fixing, RuntimeOK
  <2> QED
    BY <1>1, <2>1, <2>2 DEF Cut, Path
<1>2. CASE d # c
  BY <1>2 DEF Cut, OwnRecord
<1> QED
  BY <1>1, <1>2

\* The runtime role lacks rights only during a reset or after one that has not
\* succeeded: whatever a reset takes away it has given back before its exit 0,
\* and no other command and no release takes anything (grantRuntimeAccess in
\* scripts/sandbox-data.mjs).
THEOREM AlwaysRightsReported == Spec => []RightsReported
<1>1. Init => RightsReported
  BY DEF Init, RightsReported, RuntimeOK
<1>2. SandboxInv /\ DeliveryInv /\ DataInv /\ RightsReported /\ [Next]_vars => RightsReported'
  <2> SUFFICES ASSUME SandboxInv, DeliveryInv, DataInv, RightsReported, [Next]_vars
               PROVE  RightsReported'
    OBVIOUS
  <2>1. RuntimeOK \/ \E c \in Command : Cut(c)
    BY DEF RightsReported, Cut
  <2>2. RuntimeOK' \/ \E c \in Command : Cut(c)'
    <3>1. CASE CommandStep
      <4>1. PICK c \in Command : TesterStep(c) \/ DataStep(c)
        BY <3>1 DEF CommandStep
      <4>2. OwnRecord(c)
        BY <4>1, CommandRead DEF SandboxInv, OperatorInv
      <4>3. CASE Drop(c)
        BY <4>3, DropEffect DEF SandboxInv, Cut
      <4>4. CASE ~Drop(c)
        <5>1. Calm
          BY <4>1, <4>4, CommandCalm DEF SandboxInv
        <5>2. RuntimeOK => RuntimeOK'
          BY <5>1 DEF Calm, RuntimeOK
        <5> QED
          BY <2>1, <4>1, <4>2, <5>2, CutStays DEF SandboxInv
      <4> QED
        BY <4>3, <4>4
    <3>2. CASE CandidateStep /\ UNCHANGED cmd
      <4>1. UNCHANGED schema \/ DeployOK \/ DeployFails
        BY <3>2 DEF CandidateStep, Deploy, CheckDirect, MigrateDeploy, ExecServer
      <4>2. grants' = grants
        BY <4>1, DeployKeepsGrants DEF SandboxInv, OperatorInv, schema
      <4>3. tables => tables'
        BY <4>1 DEF DeployOK, DeployFails, schema
      <4> QED
        BY <2>1, <3>2, <4>2, <4>3 DEF RuntimeOK, Cut
    <3>3. CASE UNCHANGED <<cmd, tables, grants>>
      BY <2>1, <3>3 DEF RuntimeOK, Cut
    <3> QED
      BY <3>1, <3>2, <3>3, OutsideCommands
  <2> QED
    BY <2>2 DEF RightsReported, Cut
<1> QED
  BY <1>1, <1>2, SandboxInvariant, DeliveryInvariant, DataInvariant, PTL DEF Spec

-----------------------------------------------------------------------------
(* The tester and its account                                              *)

\* A reset goes on only with the account it has read.
Remembers(c) ==
  cmd[c].kind = "reset" /\ cmd[c].pc \in {"drop", "replay", "restoreUser", "restoreAccount",
                                           "commitRestore"} =>
    cmd[c].credential # None

LEMMA CommandRemembers ==
  ASSUME CommandShape, NEW c \in Command, TesterStep(c) \/ DataStep(c), Remembers(c)
  PROVE  Remembers(c)'
<1>1. cmd'[c].kind = cmd[c].kind \/ cmd'[c].pc \in {"migrate", "find"}
  BY CommandRead
<1>2. CASE cmd[c].pc = "idle"
  <2>1. Start(c)
    BY <1>2 DEF TesterStep, DataStep, Data, At, FindForProvision, OpenDelivery, InsertUser,
       InsertAccount, CommitProvision, FindForRevoke, DeleteAccounts, DeleteSessions,
       CommitRevoke, Fail, Kill, Running, Migrate, FindTester, CheckRole, ReadAccount, Drop,
       Replay, RestoreUser, RestoreAccount, CommitRestore, GrantUsage, GrantTables,
       AlterDefaults, LockFixtures, InsertDeck, Reconcile, InsertCards, CommitFixtures
  <2>2. \E k, pc : SetKind(c, k, pc) /\ pc \in {"migrate", "find"}
    BY <2>1 DEF Start, SetKind
  <2> QED
    BY <2>2, KindEffect DEF Remembers
<1>3. CASE cmd[c].pc # "idle" /\ cmd[c].kind = "reset"
  BY <1>3, ResetMoves DEF Remembers, Path
<1>4. CASE cmd[c].pc # "idle" /\ cmd[c].kind # "reset"
  BY <1>1, <1>4 DEF Remembers
<1> QED
  BY <1>2, <1>3, <1>4

\* Whatever fails in a provision or a reset, and in whichever order they run, no
\* tester is there without its account but the one that a revoke has committed
\* (BEGIN and COMMIT around both rows in src/scripts/manageSyntheticTester.ts and
\* scripts/sandbox-data.mjs).
THEOREM AlwaysTesterWhole == Spec => TesterWhole
<1> DEFINE ReadInv == \A c \in Command : Remembers(c)
<1>1. Init => ReadInv
  BY DEF Init, Idle, Remembers
<1>2. SandboxInv /\ ReadInv /\ [Next]_vars => ReadInv'
  <2> SUFFICES ASSUME SandboxInv, ReadInv, [Next]_vars PROVE ReadInv'
    OBVIOUS
  <2>1. CASE CommandStep
    <3>1. PICK c \in Command : TesterStep(c) \/ DataStep(c)
      BY <2>1 DEF CommandStep
    <3>2. OwnRecord(c) /\ Remembers(c)'
      BY <3>1, CommandRead, CommandRemembers DEF SandboxInv, OperatorInv
    <3> QED
      BY <3>2 DEF OwnRecord, Remembers
  <2>2. CASE UNCHANGED cmd
    BY <2>2 DEF Remembers
  <2> QED
    BY <2>1, <2>2, OutsideCommands
<1>3. SandboxInv /\ ReadInv /\ [Next]_vars =>
        [user' # None /\ credential' = None =>
           \/ user = user' /\ credential = None
           \/ \E c \in Command : At(c, "revoke", "commit") /\ cmd'[c].pc \in {"0", "1"}]_vars
  <2> SUFFICES ASSUME SandboxInv, ReadInv, Next, user' # None, credential' = None,
                      ~(user = user' /\ credential = None)
               PROVE  \E c \in Command : At(c, "revoke", "commit") /\ cmd'[c].pc \in {"0", "1"}
    OBVIOUS
  <2>1. PICK c \in Command : TesterStep(c) \/ DataStep(c)
    BY OutsideCommands DEF CommandStep
  <2>2. ~CommitProvision(c) /\ ~Drop(c)
    BY SandboxAssumption DEF CommitProvision, Drop, DropSchema
  <2>3. ~CommitRestore(c)
    <3>1. ASSUME CommitRestore(c) PROVE cmd[c].kind = "reset" /\ cmd[c].pc = "commitRestore"
      BY <3>1 DEF CommitRestore, Data, SandboxInv, OperatorInv, HistoryKept, Resetting,
         Rebuilding
    <3> QED
      BY <3>1 DEF CommitRestore, Remembers
  <2>4. CommitRevoke(c)
    BY <2>1, <2>2, <2>3, CommandAccounts
  <2>5. At(c, "revoke", "commit") /\ (Go(c, "0") \/ Throw(c))
    BY <2>4 DEF CommitRevoke
  <2> QED
    BY <2>5, GoEffect, ThrowEffect DEF SandboxInv, OperatorInv
<1> QED
  BY <1>1, <1>2, <1>3, SandboxInvariant, PTL DEF Spec, TesterWhole
=============================================================================
