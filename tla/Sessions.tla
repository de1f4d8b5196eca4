------------------------------ MODULE Sessions ------------------------------
(***************************************************************************)
(* src/lib/auth.ts and src/middlewares/authMiddleware.ts in production: a  *)
(* sign-in, a sign-out, and a request to a protected route up to the point *)
(* where its requestor is known.  Better Auth is external: what it reads   *)
(* and writes is modelled as far as the hook and the plugin rely on it.    *)
(***************************************************************************)
EXTENDS SandboxDb

CONSTANTS
  Rings         \* the rings of signing keys releases are deployed with,
                \* each a sequence of versions, the current one first

VARIABLES
  ring,         \* of the serving release
  cookies,      \* every cookie issued: a token and the key that signed it
  req           \* of each request: its kind, the awaited call, its locals

web == <<ring, cookies, req>>

Kind == {"sign-in", "call", "sign-out"}
ASSUME KindAssumption == None \notin Kind

Cookie == [token : Token, key : UNION {{r[i] : i \in DOMAIN r} : r \in Rings}]
NoRequest ==
  [kind |-> None, pc |-> "idle", cookie |-> None, ring |-> <<>>,
   user |-> None, revoked |-> FALSE, answer |-> 0]

Keys(r) == {r[i] : i \in DOMAIN r}

\* A ring that passed the environment's validation has an entry.
ASSUME RingsAssumption == \A r \in Rings : r # <<>> /\ r \in Seq(Keys(r))

SessionOf(r) == {s \in sessions : s.token = req[r].cookie.token}

SessionUser(r) ==
  IF SessionOf(r) = {} THEN None ELSE (CHOOSE s \in SessionOf(r) : TRUE).user

Answer(r, status) ==
  req' = [req EXCEPT ![r].pc = "done", ![r].answer = status]

-----------------------------------------------------------------------------
\* A request reaches the serving release, which may be the one before the
\* last by the time it is answered.  A sign-in sends the password of `tester`.
Arrive(r, kind, cookie, tester) ==
  /\ req[r].pc = "idle"
  /\ req' = [req EXCEPT ![r].kind = kind, ![r].cookie = cookie, ![r].ring = ring,
               ![r].user = tester, ![r].revoked = credential = None,
               ![r].pc = IF kind = "sign-in" THEN "password" ELSE "hook"]

SignIn(r, tester) == Arrive(r, "sign-in", None, tester)
Carry(r, kind, cookie) == Arrive(r, kind, cookie, None)

\* Sign-in reads the account and verifies the password for some time ...
VerifyPassword(r) ==
  /\ req[r].pc = "password"
  /\ IF ~RuntimeOK THEN Answer(r, 500)
     ELSE IF credential # req[r].user THEN Answer(r, 401)
     ELSE req' = [req EXCEPT ![r].pc = "mint"]
  /\ UNCHANGED <<database, ring, cookies>>

\* ... and inserts the session then, signed with the current key.
Mint(r) ==
  /\ req[r].pc = "mint"
  /\ IF RuntimeOK /\ user = req[r].user
     THEN /\ sessions' = sessions \cup {[token |-> r, user |-> user]}
          /\ cookies' = cookies \cup {[token |-> r, key |-> Head(req[r].ring)]}
          /\ Answer(r, 200)
     ELSE Answer(r, 500) /\ UNCHANGED <<sessions, cookies>>
  /\ UNCHANGED <<schema, user, credential, fixtures, tx, ring>>

\* Faulty variants: the previous keys are not tried, the credential not looked
\* for.
CurrentOnly(r) == req[r].cookie.key = Head(req[r].ring)
NoneActive(r) == FALSE

\* The hook verifies the cookie with every key of the ring, and presents it to
\* Better Auth signed with the current one.
Verified(r) == req[r].cookie.key \in Keys(req[r].ring)

\* A session whose user has no credential account.
Orphaned(r) == SessionOf(r) # {} /\ credential = None

\* The hook's findUnique; sign-in and sign-out are let past.
Hook(r) ==
  /\ req[r].kind = "call" /\ req[r].pc = "hook"
  /\ IF ~Verified(r) THEN Answer(r, 401)
     ELSE IF ~RuntimeOK THEN Answer(r, 500)
     ELSE req' = [req EXCEPT ![r].user = SessionUser(r),
                    ![r].pc = IF Orphaned(r) THEN "purge" ELSE "session"]
  /\ UNCHANGED <<database, ring, cookies>>

\* deleteMany of the user's sessions, those of other browsers with them.
Purge(r) ==
  /\ req[r].pc = "purge"
  /\ LET rows == SessionsOf(req[r].user) IN
     IF ~RuntimeOK THEN Answer(r, 500) /\ UNCHANGED sessions
     ELSE /\ \A c \in Command : tx[c] \cap Tokens(rows) = {}
          /\ sessions' = sessions \ rows
          /\ Answer(r, 401)
  /\ UNCHANGED <<schema, user, credential, fixtures, tx, ring, cookies>>

\* Better Auth's own lookup of the session.
GetSession(r) ==
  /\ req[r].pc = "session"
  /\ IF ~RuntimeOK THEN Answer(r, 500)
     ELSE IF SessionOf(r) = {} THEN Answer(r, 401)
     ELSE req' = [req EXCEPT ![r].user = SessionUser(r), ![r].pc = "user"]
  /\ UNCHANGED <<database, ring, cookies>>

\* customSession: a user that is gone is an error of the server.
CustomSession(r) ==
  /\ req[r].pc = "user"
  /\ IF RuntimeOK /\ user = req[r].user THEN Answer(r, 200) ELSE Answer(r, 500)
  /\ UNCHANGED <<database, ring, cookies>>

\* Whether a database that fails is answered 200 is Better Auth's affair.
SignOut(r) ==
  /\ req[r].kind = "sign-out" /\ req[r].pc = "hook"
  /\ LET rows == IF Verified(r) THEN SessionOf(r) ELSE {} IN
     IF Verified(r) /\ ~RuntimeOK
     THEN (Answer(r, 200) \/ Answer(r, 500)) /\ UNCHANGED sessions
     ELSE /\ \A c \in Command : tx[c] \cap Tokens(rows) = {}
          /\ sessions' = sessions \ rows
          /\ Answer(r, 200)
  /\ UNCHANGED <<schema, user, credential, fixtures, tx, ring, cookies>>

RequestStep(r) ==
  \/ VerifyPassword(r) \/ Mint(r)
  \/ Hook(r) \/ Purge(r) \/ GetSession(r) \/ CustomSession(r)
  \/ SignOut(r)

SessionsTypeOK ==
  /\ ring \in Rings
  /\ cookies \subseteq Cookie
  /\ \A r \in Request :
       /\ req[r].pc \in {"idle", "password", "mint", "hook", "purge",
                         "session", "user", "done"}
       /\ req[r].cookie \in Cookie \cup {None}
       /\ req[r].answer \in {0, 200, 401, 500}
=============================================================================
