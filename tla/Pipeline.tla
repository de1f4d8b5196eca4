------------------------------ MODULE Pipeline ------------------------------
(***************************************************************************)
(* src/app.ts: the gates a request passes before a handler works for it,   *)
(* in the order of createApp, and what an error thrown behind them is      *)
(* answered with.  A middleware that does not await runs in the same step  *)
(* as the one before it; a request rests where a body, the database or a   *)
(* service is awaited.  What a body or a cookie turns out to be is chosen   *)
(* at the gate that looks at it.                                           *)
(***************************************************************************)
EXTENDS Environment, FiniteSets

CONSTANTS
  Request,       \* requests that may be sent
  Client,        \* the addresses they come from
  Routes,        \* the routes they may ask for
  Limit,         \* requests allowed in a window, by limiter
  MaxWindows     \* bound: windows of the limiters that end

\* "exempt" is GET /health and a preflight, "open" the root and unknown routes;
\* "auth" a capability of the sandbox, "closed" any other of Better Auth's.
\* Both routers are mounted under /deck, so that "cards" passes the first too.
Route == {"exempt", "ready", "document", "auth", "closed", "open", "deck", "cards"}
Limiter == {"documentation", "auth", "general"}

ASSUME PipelineAssumption ==
  /\ Routes \subseteq Route
  /\ Limit \in [Limiter -> Nat]
  /\ MaxWindows \in Nat

VARIABLES
  env,       \* process.env
  phase,     \* where each request rests; "answered" and "refused" at the end
  kind,      \* its route and client
  counts,    \* the limiters' counters, by limiter and key
  windows    \* windows that have ended

pipeline == <<phase, kind, counts, windows>>

\* Without a reviewed proxy req.ip is the peer of the socket, which is the
\* platform's edge for every client.
Key == Client \cup {"peer"}
KeyOf(client) == IF env.TRUST_PROXY = "render-1" THEN client ELSE "peer"

NoKind == [route |-> "none", client |-> "peer"]

PipelineInit ==
  /\ phase = [r \in Request |-> "new"]
  /\ kind = [r \in Request |-> NoKind]
  /\ counts = [l \in Limiter |-> [k \in Key |-> 0]]
  /\ windows = 0

Over == {"answered", "refused"}

\* The limiter a route is counted by, if any: probes are mounted before them.
Counted(route) ==
  CASE route = "document" -> {"documentation"}
    [] route \in {"auth", "closed"} -> {"auth"}
    [] route \in {"open", "deck", "cards"} -> {"general"}
    [] OTHER -> {}

\* The capability gate, then the first await.
Admit(route) ==
  CASE route \in {"exempt", "document"} -> "answered"
    [] route = "ready" -> "database"
    [] route = "closed" /\ Production(env) -> "answered"
    [] OTHER -> "body"

\* Faulty variant: a refused request is not counted, an admitted one only later.
EnterUncounted(r, q) ==
  /\ kind' = [kind EXCEPT ![r] = q]
  /\ phase' = [phase EXCEPT ![r] =
       IF \E l \in Counted(q.route) : counts[l][KeyOf(q.client)] >= Limit[l]
       THEN "refused" ELSE Admit(q.route)]
  /\ UNCHANGED <<counts, windows>>

\* express-rate-limit counts a request and refuses it beyond the limit with 429.
Enter(r, q) ==
  LET key == KeyOf(q.client)
      used(l) == counts[l][key]
  IN  /\ kind' = [kind EXCEPT ![r] = q]
      /\ counts' = [l \in Limiter |->
           IF l \in Counted(q.route) /\ used(l) <= Limit[l]
           THEN [counts[l] EXCEPT ![key] = @ + 1] ELSE counts[l]]
      /\ phase' = [phase EXCEPT ![r] =
           IF \E l \in Counted(q.route) : used(l) >= Limit[l]
           THEN "refused" ELSE Admit(q.route)]
      /\ UNCHANGED windows

To(r, from, tos) ==
  /\ phase[r] = from
  /\ \E to \in tos : phase' = [phase EXCEPT ![r] = to]
  /\ UNCHANGED <<kind, counts, windows>>

\* The body: 413 beyond 10kb, and for the product 400 when it is no JSON.
ParseBody(r) ==
  /\ phase[r] = "body"
  /\ LET next == CASE kind[r].route \in {"auth", "closed"} -> "betterAuth"
                   [] kind[r].route = "open" -> "answered"
                   [] OTHER -> "session"
     IN  To(r, "body", {next, "answered"})

\* authMiddleware: 401 without a session, 500 if the lookup fails.  A request for
\* cards passes deckRouter, which has no route for it, and is looked up again.
Authenticate(r) ==
  \/ /\ kind[r].route = "deck"
     /\ To(r, "session", {"service", "answered"})
  \/ /\ kind[r].route = "cards"
     /\ To(r, "session", {"again", "answered"})
  \/ To(r, "again", {"service", "answered"})

\* auth.handler, validation and service, the query of /ready: each answers.
Answer(r) ==
  \E from \in {"betterAuth", "service", "database"} : To(r, from, {"answered"})

Handle(r) == ParseBody(r) \/ Authenticate(r) \/ Answer(r)

WindowEnds ==
  /\ windows < MaxWindows
  /\ windows' = windows + 1
  /\ \E l \in Limiter, k \in Key :
       counts[l][k] > 0 /\ counts' = [counts EXCEPT ![l][k] = 0]
  /\ UNCHANGED <<phase, kind>>

-----------------------------------------------------------------------------
(* The error handler.                                                      *)

PrismaCodes == {"P2000", "P2001", "P2002", "P2003", "P2011", "P2014", "P2016",
                "P2025", "P1001", "P2024", "P2034"}

Errors ==
  [type : {"tooLarge", "parseFailed", "prismaValidation", "unknown"}, code : {""}]
    \cup [type : {"prisma"}, code : PrismaCodes]
    \cup [type : {"app", "validation"}, code : {"400", "401", "403", "404", "409"}]

\* What a handler of a route may pass on: the probes answer their own failures,
\* and Better Auth its database's; in front of these two only a body can fail.
ErrorsOf(route) ==
  CASE route \in {"exempt", "ready", "document"} -> {}
    [] route \in {"auth", "closed"} -> {err \in Errors : err.type = "tooLarge"}
    [] route = "open" -> {err \in Errors : err.type \in {"tooLarge", "parseFailed"}}
    [] OTHER -> Errors

\* EXPECTED_PRISMA_ERROR_CODES: what a caller can bring about.
ExpectedPrismaError(code) ==
  code \in {"P2000", "P2001", "P2002", "P2003", "P2011", "P2014", "P2016", "P2025"}

\* Faulty variant: a code that is expected but falls through to the default.
HandlePrismaErrorFewer(code) ==
  CASE code = "P2002" -> 409
    [] code \in {"P2025", "P2001"} -> 404
    [] code \in {"P2003", "P2014", "P2011", "P2000"} -> 400
    [] OTHER -> 500

HandlePrismaError(code) ==
  CASE code = "P2002" -> 409
    [] code \in {"P2025", "P2001", "P2016"} -> 404
    [] code \in {"P2003", "P2014", "P2011", "P2000"} -> 400
    [] OTHER -> 500

StatusOf(code) ==
  CASE code = "400" -> 400 [] code = "401" -> 401 [] code = "403" -> 403
    [] code = "404" -> 404 [] code = "409" -> 409

\* handleError: the status, and whether the error is operational.
HandledStatus(err) ==
  CASE err.type = "tooLarge" -> 413
    [] err.type \in {"parseFailed", "prismaValidation"} -> 400
    [] err.type = "prisma" -> HandlePrismaError(err.code)
    [] err.type \in {"app", "validation"} -> StatusOf(err.code)
    [] OTHER -> 500

\* logError: the level of the record that goes with the answer.
LogLevelOf(err) ==
  CASE err.type = "prisma" -> IF ExpectedPrismaError(err.code) THEN "warn" ELSE "error"
    [] err.type \in {"prismaValidation", "unknown"} -> "error"
    [] OTHER -> "warn"
=============================================================================
