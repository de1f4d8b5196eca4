------------------------------ MODULE Sandbox ------------------------------
(***************************************************************************)
(* The sandbox: browsers and the smoke send requests to the serving        *)
(* release while operators run commands against its database and the next  *)
(* release starts.                                                         *)
(***************************************************************************)
EXTENDS SandboxData, Release

CONSTANT Casts  \* who takes part: sets of commands, requests, "release",
                \* "smoke" and "edits"

VARIABLES
  cast,
  deleted       \* history: of each seed or reset, the cards the tester has
                \* deleted between its INSERT and its COMMIT

vars == <<cast, deleted, database, operator, web, delivery>>

\* A sandbox with a tester or none yet, whose fixtures are missing, complete,
\* or in somebody's way, and whose schema may be behind the next release.
Init ==
  /\ cast \in Casts
  /\ deleted = [c \in Command |-> {}]
  /\ tables = TRUE /\ history \in {"behind", "current"}
  /\ grants = {"usage", "tables", "defaults"}
  /\ user \in {First, None}
  /\ credential = user
  /\ sessions = {[token |-> First, user |-> u] : u \in {user} \ {None}}
  /\ deck \in {user, Other, None}
  /\ cards \in [Fixture -> IF deck = None THEN {"absent", "foreign"}
                           ELSE {"absent", "edited"}]
  /\ tx = [c \in Command |-> {}]
  /\ cmd = [c \in Command |-> Idle]
  /\ file = None /\ faults = 0
  /\ ring \in Rings /\ next = ring
  /\ cookies = {[token |-> s.token, key |-> ring[Len(ring)]] : s \in sessions}
  /\ req = [r \in Request |-> NoRequest]
  /\ release = 1 /\ candidate = "none"
  /\ smoke = NoSmoke /\ lost = 0

Resets(c) == cmd[c].kind = "reset" /\ Running(c)

\* The runbook freezes writes and names one operator for a reset: two resets
\* at once would undo each other's work.  When one has ended, in whichever way,
\* the operator may start the next.
OneReset ==
  \A c, d \in Command : Resets(c)' /\ Resets(d)' => c = d

CommandStep ==
  /\ \E c \in Command \cap cast : TesterStep(c) \/ DataStep(c)
  /\ OneReset
  /\ UNCHANGED <<cast, deleted, web, delivery>>

\* A browser: it knows the cookies issued and the passwords delivered.
Browse(r) ==
  /\ \/ \E t \in {First, file} \ {None} : SignIn(r, t)
     \/ \E cookie \in cookies, kind \in {"call", "sign-out"} : Carry(r, kind, cookie)
  /\ UNCHANGED <<database, ring, cookies>>

WebStep ==
  /\ \/ \E r \in (Request \ SmokeRequests) \cap cast : Browse(r)
     \/ \E r \in Request : RequestStep(r)
  /\ UNCHANGED <<cast, deleted, operator, delivery>>

EditStep ==
  /\ TesterEdits
  /\ deleted' = [c \in Command |->
       deleted[c] \cup {k \in Fixture : /\ Data(c, "commit")
                                        /\ cards[k] # "absent" /\ cards'[k] = "absent"}]
  /\ UNCHANGED <<cast, web, delivery>>

Next ==
  \/ CommandStep
  \/ WebStep
  \/ "edits" \in cast /\ EditStep
  \/ "release" \in cast /\ CandidateStep /\ UNCHANGED <<cast, deleted, operator>>
  \/ "smoke" \in cast /\ SmokeStep /\ UNCHANGED <<cast, deleted, operator>>

Spec == Init /\ [][Next]_vars

-----------------------------------------------------------------------------

TypeOK ==
  /\ DbTypeOK /\ SessionsTypeOK /\ ReleaseTypeOK
  /\ file \in Command \cup {None}
  /\ faults \in 0..MaxFaults
  /\ deleted \in [Command -> SUBSET Fixture]
  /\ credential # None => user # None
  /\ \A s \in sessions : s.user = user

\* A request that arrives when the tester has no credential any more is never
\* authorized, whichever session its cookie names: one of before the
\* revocation, or one a sign-in in flight minted after it.
RevokedRefused ==
  \A r \in Request :
    ~(req[r].kind = "call" /\ req[r].revoked /\ req[r].answer = 200)

\* The stronger claim of docs/synthetic-testers.md: once the revocation is
\* committed, Better Auth's lookup accepts no session any more.
RevocationImmediate ==
  [][\A r \in Request :
       req[r].pc = "session" /\ req'[r].pc = "user" => credential # None]_vars

\* A cookie is refused for its signature only when its key has left the ring:
\* with a listed key, current or previous, only a lost session is refused.
RetainedKeysHonoured ==
  [][\A r \in Request :
       req[r].kind = "call" /\ req[r].answer = 0 /\ req'[r].answer = 401 =>
         \/ req[r].cookie.key \notin Keys(req[r].ring)
         \/ \A s \in sessions' : s.token # req[r].cookie.token]_vars

\* A run that failed leaves no file, and no other run takes away the file of one
\* that has delivered.  A password that is in no file, when the acknowledgement
\* of its COMMIT was lost, is that of a run which has reported failure.
DeliveryFile ==
  /\ file # None => cmd[file].pc # "1"
  /\ \A c \in Command : cmd[c].kind = "provision" /\ cmd[c].pc = "0" => file = c
  /\ credential \in Command => file = credential \/ cmd[credential].pc = "1"

\* A run that says so has delivered: its file is there with the password that
\* the account it committed has.
Delivered ==
  [][\A c \in Command :
       cmd[c].kind = "provision" /\ cmd[c].pc # "0" /\ cmd'[c].pc = "0" =>
         file' = c /\ credential' = c /\ user' = c]_vars

\* The runtime role never gets at the history of migrations.
HistoryDenied == "history" \notin grants

\* No release comes to serve a schema whose migrations are pending, broken or
\* not there, whoever broke them and however often a candidate is started,
\* unless a reset has dropped the schema and not brought it back.
MigratedBeforeServing ==
  release > 1 /\ history # "current" =>
    \E c \in Command : cmd[c].kind = "reset" /\ cmd[c].pc \in {"replay", "1", "killed"}

\* The runtime role lacks rights only while a reset rebuilds them or after one
\* that has not exited with 0: no success of a later command hides the loss.
RightsReported ==
  ~RuntimeOK =>
    \E c \in Command :
      /\ cmd[c].kind = "reset"
      /\ cmd[c].pc \notin {"idle", "find", "role", "read", "drop", "0"}

\* Whatever fails in a reset or provision, the tester is there with its account
\* or not at all.  A user without account is a revoked one; provision refuses
\* it as existing and reset for its missing account, so neither could repair it.
TesterWhole ==
  [][user' # None /\ credential' = None =>
       \/ user = user' /\ credential = None
       \/ \E c \in Command : At(c, "revoke", "commit") /\ cmd'[c].pc \in {"0", "1"}]_vars

\* A seed or reset that exits with 0 leaves the tester it found the owner of
\* the canonical deck with every card in it, but those the tester has deleted
\* after the INSERT had found them; a reset also leaves the password it had
\* before, under a runtime role that can work.
DataComplete ==
  [][\A c \in Command :
       cmd[c].kind \in {"seed", "reset"} /\ cmd[c].pc # "0" /\ cmd'[c].pc = "0" =>
         /\ deck' = cmd[c].user
         /\ \A k \in Fixture : cards'[k] \in {"canonical", "edited"} \/ k \in deleted[c]
         /\ user' = cmd[c].user
         /\ cmd[c].kind = "reset" =>
              RuntimeOK' /\ credential' \in {None, cmd[c].credential}]_vars

\* Nothing but a reset and the tester itself takes away or rewrites a card that
\* the tester has edited, and nothing but a reset one in somebody else's deck.
EditsPreserved ==
  [][\A k \in Fixture :
       cards[k] \in {"edited", "foreign"} /\ cards'[k] # cards[k] =>
         ~tables' \/ (UNCHANGED cmd /\ cards[k] = "edited")]_vars

\* A smoke that is over and received the answer to its sign-in has left no
\* session of its own, unless it reports that the cleanup failed.
SmokeCleansUp ==
  smoke.pc = "over" /\ smoke.cookie # None /\ ~smoke.cleanupFailed =>
    smoke.cookie.token \notin Tokens(sessions)
=============================================================================
