----------------------------- MODULE Lifecycle -----------------------------
(***************************************************************************)
(* src/server.ts: one process from the validation of its environment to    *)
(* its exit, with the requests of Pipeline.  A request and its connection  *)
(* come apart: `conn` is the connection the HTTP server knows of, `phase`  *)
(* the progress of the handler, which goes on when the client has hung up. *)
(***************************************************************************)
EXTENDS Pipeline

CONSTANTS
  Environments,   \* the environments the process may be started with
  MaxSignals,     \* how many SIGTERM and SIGINT arrive at most
  Deadline,       \* the ten seconds of the fallback, in ticks
  MaxTicks        \* how long after the first signal time is looked at

ASSUME LifecycleAssumption ==
  Deadline \in Nat \ {0} /\ MaxSignals \in Nat /\ MaxTicks \in Nat

ASSUME EnvironmentsAssumption ==
  \A e \in Environments : e.ring \in Seq(Entry)

VARIABLES
  stage,            \* how far the module, and later shutdown, has come
  exit,             \* the exit code, or "none" while the process runs
  shutdownStarted,
  hardExit,         \* the time the fallback timer is due, or Never
  elapsed,          \* ticks since the first signal
  signals,          \* signals received
  conn,             \* of each request: "new", "waiting", "idle", "closed"
  db                \* the Prisma client: "connected", "disconnected"

lifecycle == <<stage, exit, shutdownStarted, hardExit, elapsed, signals>>
requests == <<conn, pipeline>>
vars == <<env, lifecycle, requests, db>>

Never == -1

Init ==
  /\ env \in Environments
  /\ stage = "validate"
  /\ exit = "none"
  /\ shutdownStarted = FALSE
  /\ hardExit = Never
  /\ elapsed = 0
  /\ signals = 0
  /\ conn = [r \in Request |-> "new"]
  /\ PipelineInit
  /\ db = "connected"

Running == exit = "none"

\* process.exit: connections and handlers are left as they are.
Exit(code) ==
  /\ exit' = code
  /\ UNCHANGED <<env, stage, shutdownStarted, hardExit, elapsed, signals,
                 requests, db>>

Advance(from, to) ==
  /\ Running /\ stage = from /\ stage' = to
  /\ UNCHANGED <<env, exit, shutdownStarted, hardExit, elapsed, signals,
                 requests, db>>

-----------------------------------------------------------------------------
(* Start.  "crash" is an exception nothing catches, whose message Node      *)
(* prints as it is.                                                        *)

Validate ==
  \/ ValidEnv(env) /\ Advance("validate", "logger")
  \/ Running /\ stage = "validate" /\ ~ValidEnv(env) /\ Exit("1")

Load(from, loads, to) ==
  /\ Running /\ stage = from
  /\ stage' = IF loads THEN to ELSE from
  /\ exit' = IF loads THEN "none" ELSE "crash"
  /\ UNCHANGED <<env, shutdownStarted, hardExit, elapsed, signals,
                 requests, db>>

LoadModules ==
  \/ Load("logger", LoggerLoads(env), "prisma")
  \/ Load("prisma", PrismaLoads(env), "app")
  \/ Load("app", AppLoads(env), "bind")

\* startServer: the port is free, or the error event ends the process.
Listen ==
  \/ Advance("bind", "serving")
  \/ Running /\ stage = "bind" /\ Exit("1")

-----------------------------------------------------------------------------
(* Requests.                                                               *)

\* The answer is sent and the connection kept alive or not; a client that has
\* hung up gets none.
Send(r, conns) ==
  IF phase'[r] \notin Over \/ conns[r] # "waiting" THEN conn' = conns
  ELSE \E to \in {"idle", "closed"} : conn' = [conns EXCEPT ![r] = to]

\* Connections are accepted until server.close is called; one that is idle may
\* carry a further request even then.
Receive(r) ==
  /\ Running /\ phase[r] = "new"
  /\ \E q \in [route : Routes, client : Client] : Enter(r, q)
  /\ \/ /\ stage = "serving"
        /\ Send(r, [conn EXCEPT ![r] = "waiting"])
     \/ /\ stage \in {"serving", "closing"}
        /\ \E o \in Request : /\ conn[o] = "idle"
                             /\ Send(r, [conn EXCEPT ![o] = "closed", ![r] = "waiting"])
  /\ UNCHANGED <<env, lifecycle, db>>

Work(r) ==
  /\ Running /\ Handle(r)
  /\ Send(r, conn)
  /\ UNCHANGED <<env, lifecycle, db>>

\* The client hangs up, or an idle connection expires.
Disconnect(r) ==
  /\ Running /\ conn[r] \in {"waiting", "idle"}
  /\ conn' = [conn EXCEPT ![r] = "closed"]
  /\ UNCHANGED <<env, lifecycle, pipeline, db>>

Window ==
  /\ Running /\ stage = "serving" /\ WindowEnds
  /\ UNCHANGED <<env, lifecycle, conn, db>>

-----------------------------------------------------------------------------
(* Shutdown.                                                               *)

\* Faulty variant: every signal starts over.
ShutdownAgain ==
  /\ shutdownStarted' = TRUE
  /\ hardExit' = elapsed + Deadline
  /\ stage' = IF shutdownStarted THEN stage ELSE "closing"
  /\ conn' = [r \in Request |-> IF conn[r] = "idle" THEN "closed" ELSE conn[r]]
  /\ UNCHANGED <<env, exit, elapsed, pipeline, db>>

\* shutdown: server.close also closes the connections that are idle now.
Shutdown ==
  IF shutdownStarted THEN UNCHANGED <<env, stage, exit, shutdownStarted, hardExit,
                                      elapsed, requests, db>>
  ELSE /\ shutdownStarted' = TRUE
       /\ hardExit' = elapsed + Deadline
       /\ stage' = "closing"
       /\ conn' = [r \in Request |-> IF conn[r] = "idle" THEN "closed" ELSE conn[r]]
       /\ UNCHANGED <<env, exit, elapsed, pipeline, db>>

\* Before the handlers are registered a signal kills the process, or is
\* ignored, as it is for the first process of a container.
Signal ==
  /\ Running /\ signals < MaxSignals
  /\ signals' = signals + 1
  /\ \/ /\ stage \in {"serving", "closing", "disconnecting"}
        /\ Shutdown
     \/ /\ stage \in {"validate", "logger", "prisma", "app"}
        /\ exit' \in {"none", "killed"}
        /\ UNCHANGED <<env, stage, shutdownStarted, hardExit, elapsed, requests, db>>

NoConnection == \A r \in Request : conn[r] \notin {"waiting", "idle"}

\* Faulty variant: server.close is not waited for.
CloseAtOnce ==
  /\ stage = "closing"
  /\ \/ Advance("closing", "disconnecting")
     \/ Running /\ Exit("1")

\* Faulty variant: the fallback is cleared before $disconnect is awaited.
CloseAndClear ==
  /\ Running /\ stage = "closing" /\ NoConnection
  /\ stage' = "disconnecting" /\ hardExit' = Never
  /\ UNCHANGED <<env, exit, shutdownStarted, elapsed, signals, requests, db>>

\* The callback of server.close, called when the last connection is gone;
\* with an error it exits.
Close ==
  /\ stage = "closing" /\ NoConnection
  /\ \/ Advance("closing", "disconnecting")
     \/ Running /\ Exit("1")

\* $disconnect resolves, and the process exits without another step, or rejects.
\* It may also do neither for as long as it likes.
DisconnectPrisma ==
  /\ Running /\ stage = "disconnecting"
  /\ \/ /\ exit' = "0" /\ db' = "disconnected" /\ hardExit' = Never
        /\ UNCHANGED <<env, stage, shutdownStarted, elapsed, signals, requests>>
     \/ Exit("1")

TimerDue == hardExit # Never /\ elapsed >= hardExit

HardExit == Running /\ TimerDue /\ Exit("1")

\* Time is counted from the first signal; the event loop runs a timer that is due.
Tick ==
  /\ Running /\ shutdownStarted /\ elapsed < MaxTicks
  /\ ~TimerDue
  /\ elapsed' = elapsed + 1
  /\ UNCHANGED <<env, stage, exit, shutdownStarted, hardExit, signals,
                 requests, db>>

-----------------------------------------------------------------------------
Start == Validate \/ LoadModules \/ Listen
Serve == Window \/ \E r \in Request : Receive(r) \/ Work(r) \/ Disconnect(r)
Stop == Signal \/ Close \/ DisconnectPrisma \/ HardExit

Next == Start \/ Serve \/ Stop \/ Tick

\* Node starts the program, time passes and due timers run.  Nothing is assumed of clients,
\* handlers, the database or the callback of server.close.
Fairness == WF_vars(Start) /\ WF_vars(Tick) /\ WF_vars(HardExit)

Spec == Init /\ [][Next]_vars /\ Fairness

-----------------------------------------------------------------------------
TypeOK ==
  /\ env \in Environments
  /\ stage \in {"validate", "logger", "prisma", "app", "bind", "serving",
                "closing", "disconnecting"}
  /\ exit \in {"none", "0", "1", "crash", "killed"}
  /\ shutdownStarted \in BOOLEAN
  /\ shutdownStarted <=> stage \in {"closing", "disconnecting"}
  /\ hardExit \in Nat \cup {Never} /\ elapsed \in Nat /\ signals \in Nat
  /\ hardExit = Never <=> ~shutdownStarted \/ exit = "0"
  /\ conn \in [Request -> {"new", "waiting", "idle", "closed"}]
  /\ phase \in [Request -> {"new", "body", "session", "again", "betterAuth",
                           "service", "database"} \cup Over]
  /\ kind \in [Request -> [route : Routes, client : Client] \cup {NoKind}]
  /\ counts \in [Limiter -> [Key -> Nat]] /\ windows \in Nat
  /\ db \in {"connected", "disconnected"}

(* Nothing that validateEnv accepts makes a module loaded later throw: every  *)
(* rule those modules apply to the same variables is implied by its rules.    *)
NoLateFailure == exit # "crash"

(* A production server serves with https origins only, with no origins from   *)
(* elsewhere, and signs with the newest of the versioned keys.                *)
ProductionBoundary ==
  Production(env) /\ stage = "serving" =>
    /\ Origins(env) \subseteq {"https"} /\ Origins(env) # {}
    /\ env.BETTER_AUTH_TRUSTED_ORIGINS = "absent"
    /\ \A i \in 1..Len(env.ring) :
         env.ring[i].version >= env.ring[1].version => i = 1

(* Exit code 0 means that every client that waited for an answer had it and   *)
(* that Prisma is disconnected, whatever signals, answers, hang-ups and the    *)
(* fallback timer do to each other (docs/production-image.md).                 *)
GracefulExit ==
  exit = "0" => shutdownStarted /\ db = "disconnected" /\ NoConnection

(* The process is gone when the deadline that the first signal set has         *)
(* passed, even if further signals come, a client holds on to its connection   *)
(* or $disconnect never returns.                                               *)
ExitsInTime == Running => elapsed <= Deadline

(* A signal the server has taken leads to its exit.                           *)
EventuallyExits == shutdownStarted ~> ~Running

(* Of the requests of one client that a limiter counts, whatever they ask for *)
(* and whenever they are refused later on, no more reach what is behind it    *)
(* than its limit allows in the windows there have been: a body, a session or *)
(* a service is looked at only for requests that were counted.                *)
Admitted(l, k) == { r \in Request : /\ phase[r] \notin {"new", "refused"}
                                    /\ l \in Counted(kind[r].route)
                                    /\ KeyOf(kind[r].client) = k }
QuotaHolds ==
  \A l \in Limiter, k \in Key :
    Cardinality(Admitted(l, k)) <= Limit[l] * (windows + 1)

(* handleError and logError have a table of Prisma codes each: whatever made a  *)
(* request that is answered fail, its record is an error exactly if the answer  *)
(* is a server error, or Prisma refused the query as malformed                  *)
(* (docs/logging.md).                                                           *)
FailuresLevelled ==
  \A r \in Request : phase[r] = "answered" =>
    \A err \in ErrorsOf(kind[r].route) :
      LogLevelOf(err) = "error" <=>
        HandledStatus(err) >= 500 \/ err.type = "prismaValidation"

(* docs/production-image.md: a signal "finishes in-flight HTTP work" before    *)
(* the process exits 0.                                                        *)
WorkFinished == exit = "0" => \A r \in Request : phase[r] \in Over \cup {"new"}
=============================================================================
