-------------------------- MODULE LifecycleProofs --------------------------
(***************************************************************************)
(* What src/server.ts guarantees for every environment, every set of       *)
(* requests and any number of signals: the process is gone when the        *)
(* deadline has passed, exit code 0 is not given away, and no limiter lets  *)
(* more requests pass than it counts.                                      *)
(***************************************************************************)
EXTENDS Lifecycle, FiniteSetTheorems, TLAPS

\* The stages follow the flag that the first signal sets.
FlagFollows == shutdownStarted <=> stage \in {"closing", "disconnecting"}

\* The fallback was armed by the first signal, from which time is counted, and
\* nothing arms it again or clears it while the process runs.
Armed ==
  Running =>
    IF shutdownStarted THEN hardExit = Deadline /\ elapsed \in 0..Deadline
    ELSE elapsed = 0

\* $disconnect is called when there is no connection left, and none appears.
Drained ==
  /\ stage = "disconnecting" => NoConnection
  /\ exit = "0" => db = "disconnected" /\ stage = "disconnecting"

ShutdownInv ==
  /\ conn \in [Request -> {"new", "waiting", "idle", "closed"}]
  /\ FlagFollows /\ Armed /\ Drained

\* No answer is sent when no connection waits for one.
LEMMA SendDrained ==
  ASSUME NEW r \in Request, NoConnection, Send(r, conn)
  PROVE  conn' = conn
BY DEF NoConnection, Send

\* An answer only changes what becomes of its own connection.
LEMMA SendTyped ==
  ASSUME NEW r \in Request, NEW conns \in [Request -> {"new", "waiting", "idle", "closed"}],
         Send(r, conns)
  PROVE  conn' \in [Request -> {"new", "waiting", "idle", "closed"}]
BY DEF Send

LEMMA InitShutdownInv == Init => ShutdownInv
BY LifecycleAssumption
   DEF Init, ShutdownInv, FlagFollows, Armed, Drained, Running, Never

\* The steps before the server listens, none of which is a shutdown's.
LEMMA StartKeeps ==
  ASSUME ShutdownInv, Start
  PROVE  ShutdownInv'
<1>1. /\ UNCHANGED <<shutdownStarted, hardExit, elapsed, conn, db>>
      /\ Running /\ exit' # "0"
      /\ stage \notin {"closing", "disconnecting"} /\ stage' \notin {"closing", "disconnecting"}
  BY DEF Start, Validate, LoadModules, Load, Listen, Advance, Exit, Running, requests
<1> QED
  BY <1>1 DEF ShutdownInv, FlagFollows, Armed, Drained, Running, NoConnection

\* Requests, answers and hang-ups.
LEMMA ServeKeeps ==
  ASSUME ShutdownInv, Serve
  PROVE  ShutdownInv'
<1>1. UNCHANGED lifecycle /\ UNCHANGED db /\ Running
  BY DEF Serve, Window, Receive, Work, Disconnect, lifecycle
<1>2. conn' \in [Request -> {"new", "waiting", "idle", "closed"}]
  <2>1. CASE Window
    BY <2>1 DEF Window, ShutdownInv
  <2>2. ASSUME NEW r \in Request, Receive(r) PROVE conn' \in [Request -> {"new", "waiting", "idle", "closed"}]
    <3>1. CASE Send(r, [conn EXCEPT ![r] = "waiting"])
      BY <3>1, SendTyped DEF ShutdownInv
    <3>2. ASSUME NEW o \in Request, Send(r, [conn EXCEPT ![o] = "closed", ![r] = "waiting"])
          PROVE  conn' \in [Request -> {"new", "waiting", "idle", "closed"}]
      BY <3>2, SendTyped DEF ShutdownInv
    <3> QED
      BY <2>2, <3>1, <3>2 DEF Receive
  <2>3. ASSUME NEW r \in Request, Work(r) PROVE conn' \in [Request -> {"new", "waiting", "idle", "closed"}]
    BY <2>3, SendTyped DEF Work, ShutdownInv
  <2>4. ASSUME NEW r \in Request, Disconnect(r) PROVE conn' \in [Request -> {"new", "waiting", "idle", "closed"}]
    BY <2>4 DEF Disconnect, ShutdownInv
  <2> QED
    BY <2>1, <2>2, <2>3, <2>4 DEF Serve
<1>3. ASSUME stage = "disconnecting" PROVE NoConnection'
  <2>1. NoConnection
    BY <1>3 DEF ShutdownInv, Drained
  <2>2. conn' = conn
    BY <2>1, <1>3, SendDrained DEF Serve, Window, Receive, Work, Disconnect, NoConnection
  <2> QED
    BY <2>1, <2>2 DEF NoConnection
<1> QED
  BY <1>1, <1>2, <1>3 DEF ShutdownInv, FlagFollows, Armed, Drained, Running, lifecycle

\* Only the first signal arms the fallback and closes the server.
LEMMA SignalKeeps ==
  ASSUME ShutdownInv, Signal
  PROVE  ShutdownInv'
<1>1. CASE shutdownStarted
  BY <1>1 DEF Signal, Shutdown, ShutdownInv, FlagFollows, Armed, Drained, Running,
              NoConnection, requests
<1>2. CASE ~shutdownStarted /\ stage = "serving"
  <2>1. /\ shutdownStarted' = TRUE /\ stage' = "closing" /\ hardExit' = elapsed + Deadline
        /\ conn' = [r \in Request |-> IF conn[r] = "idle" THEN "closed" ELSE conn[r]]
        /\ UNCHANGED <<exit, elapsed, db>> /\ Running
    BY <1>2 DEF Signal, Shutdown
  <2>2. elapsed = 0
    BY <1>2, <2>1 DEF ShutdownInv, Armed
  <2> QED
    BY <2>1, <2>2, LifecycleAssumption
       DEF ShutdownInv, FlagFollows, Armed, Drained, Running
<1>3. CASE ~shutdownStarted /\ stage # "serving"
  <2>1. /\ exit' \in {"none", "killed"} /\ Running
        /\ UNCHANGED <<stage, shutdownStarted, hardExit, elapsed, conn, db>>
    BY <1>3 DEF Signal, ShutdownInv, FlagFollows, requests
  <2> QED
    BY <2>1 DEF ShutdownInv, FlagFollows, Armed, Drained, Running, NoConnection
<1> QED
  BY <1>1, <1>2, <1>3

\* The callback of server.close, the end of $disconnect and the fallback.
LEMMA StopKeeps ==
  ASSUME ShutdownInv, Stop
  PROVE  ShutdownInv'
<1>1. CASE Signal
  BY <1>1, SignalKeeps
<1>2. CASE Close
  <2>1. /\ UNCHANGED <<shutdownStarted, hardExit, elapsed, conn, db>>
        /\ NoConnection /\ Running /\ stage = "closing"
    BY <1>2 DEF Close, Advance, Exit, requests
  <2>2. \/ stage' = "disconnecting" /\ exit' = exit
        \/ stage' = stage /\ exit' = "1"
    BY <1>2 DEF Close, Advance, Exit
  <2> QED
    BY <2>1, <2>2 DEF ShutdownInv, FlagFollows, Armed, Drained, Running, NoConnection
<1>3. CASE DisconnectPrisma
  BY <1>3 DEF DisconnectPrisma, Exit, ShutdownInv, FlagFollows, Armed, Drained, Running,
              NoConnection, requests
<1>4. CASE HardExit
  BY <1>4 DEF HardExit, Exit, ShutdownInv, FlagFollows, Armed, Drained, Running,
              NoConnection, requests
<1> QED
  BY <1>1, <1>2, <1>3, <1>4 DEF Stop

\* Time does not pass a timer that is due.
LEMMA TickKeeps ==
  ASSUME ShutdownInv, Tick
  PROVE  ShutdownInv'
<1>1. hardExit = Deadline /\ elapsed \in 0..Deadline /\ elapsed < Deadline
  BY LifecycleAssumption DEF Tick, TimerDue, ShutdownInv, Armed, Never
<1> QED
  BY <1>1, LifecycleAssumption
     DEF Tick, ShutdownInv, FlagFollows, Armed, Drained, Running, NoConnection, requests

LEMMA ShutdownInvInductive == ShutdownInv /\ [Next]_vars => ShutdownInv'
<1> SUFFICES ASSUME ShutdownInv, [Next]_vars PROVE ShutdownInv'
  OBVIOUS
<1>1. CASE UNCHANGED vars
  BY <1>1 DEF vars, lifecycle, requests, ShutdownInv, FlagFollows, Armed, Drained,
              Running, NoConnection
<1> QED
  BY <1>1, StartKeeps, ServeKeeps, StopKeeps, TickKeeps DEF Next

\* The flag, the deadline and the connections of a shutdown agree with its stage,
\* however signals, answers and hang-ups interleave (src/server.ts, shutdown).
THEOREM ShutdownInvariant == Spec => []ShutdownInv
BY InitShutdownInv, ShutdownInvInductive, PTL DEF Spec

\* The process never runs longer than the deadline after the first signal, for
\* any number of signals, requests and answers (src/server.ts, shutdown).
THEOREM AlwaysExitsInTime == Spec => []ExitsInTime
<1>1. ShutdownInv => ExitsInTime
  BY LifecycleAssumption DEF ShutdownInv, Armed, ExitsInTime
<1> QED
  BY <1>1, ShutdownInvariant, PTL

\* Exit code 0 is only given when no client waits and Prisma is disconnected.
THEOREM AlwaysGracefulExit == Spec => []GracefulExit
<1>1. ShutdownInv => GracefulExit
  BY DEF ShutdownInv, FlagFollows, Drained, GracefulExit
<1> QED
  BY <1>1, ShutdownInvariant, PTL

-----------------------------------------------------------------------------
(* What the validated environment keeps from happening later               *)

EnvInv ==
  /\ env \in Environments
  /\ stage # "validate" => ValidEnv(env)
  /\ exit # "crash"

\* The readers of the same variables ask for no more than validateEnv did.
LEMMA ValidEnvLoads ==
  ASSUME ValidEnv(env)
  PROVE  LoggerLoads(env) /\ PrismaLoads(env) /\ AppLoads(env)
<1>1. IsUrl(env.BETTER_AUTH_URL)
  BY DEF ValidEnv, HttpUrlOK, IsUrl
<1> QED
  BY <1>1 DEF ValidEnv, LoggerLoads, PrismaLoads, AppLoads, DatabaseOK, IsUrl

\* The versions of an accepted ring decrease, so that none reaches the first.
LEMMA NewestFirst ==
  ASSUME NEW ring \in Seq(Entry), RingOK(ring), NEW i \in 1..Len(ring), i # 1
  PROVE  ~(ring[i].version >= ring[1].version)
<1>1. Len(ring) \in Nat
  OBVIOUS
<1>2. 1 \in 1..(i - 1) /\ 1 \in 1..Len(ring)
  BY <1>1
<1>3. ring[i] \in Entry /\ ring[1] \in Entry
  BY <1>1, <1>2
<1>4. ring[i].version \in Nat /\ ring[1].version \in Nat
  BY <1>3 DEF Entry
<1>5. ring[1].version > ring[i].version
  BY <1>2 DEF RingOK
<1> QED
  BY <1>4, <1>5

LEMMA EnvInvInductive == EnvInv /\ [Next]_vars => EnvInv'
<1> SUFFICES ASSUME EnvInv, [Next]_vars PROVE EnvInv'
  OBVIOUS
<1>1. CASE Start
  <2>1. env' = env
    BY <1>1 DEF Start, Validate, LoadModules, Load, Listen, Advance, Exit
  <2>2. CASE Validate
    BY <2>1, <2>2 DEF EnvInv, Validate, Advance, Exit
  <2>3. CASE LoadModules
    <3>1. stage # "validate" /\ ValidEnv(env)
      BY <2>3 DEF EnvInv, LoadModules, Load
    <3>2. exit' = "none"
      BY <2>3, <3>1, ValidEnvLoads DEF LoadModules, Load
    <3> QED
      BY <2>1, <3>1, <3>2 DEF EnvInv
  <2>4. CASE Listen
    BY <2>1, <2>4 DEF EnvInv, Listen, Advance, Exit, Running
  <2> QED
    BY <1>1, <2>2, <2>3, <2>4 DEF Start
<1>2. CASE Serve
  BY <1>2 DEF EnvInv, Serve, Window, Receive, Work, Disconnect, lifecycle
<1>3. CASE Stop
  BY <1>3 DEF EnvInv, Stop, Signal, Shutdown, Close, Advance, Exit, Running,
     DisconnectPrisma, HardExit
<1>4. CASE Tick \/ UNCHANGED vars
  BY <1>4 DEF EnvInv, Tick, vars, lifecycle
<1> QED
  BY <1>1, <1>2, <1>3, <1>4 DEF Next

\* Whatever runs after the validation of src/utils/env.ts runs in an environment
\* that it has accepted.
THEOREM EnvironmentInvariant == Spec => []EnvInv
<1>1. Init => EnvInv
  BY DEF Init, EnvInv
<1> QED
  BY <1>1, EnvInvInductive, PTL DEF Spec

\* For every environment, not only those that differ from a good one in one
\* variable: what validateEnv accepts, the logger, the Prisma client and the
\* application load without throwing.
THEOREM NeverFailsLate == Spec => []NoLateFailure
<1>1. EnvInv => NoLateFailure
  BY DEF EnvInv, NoLateFailure
<1> QED
  BY <1>1, EnvironmentInvariant, PTL

\* For every environment: a production server that serves has https origins
\* only, none from elsewhere, and its newest key in front.
THEOREM AlwaysProductionBoundary == Spec => []ProductionBoundary
<1>1. EnvInv => ProductionBoundary
  <2> SUFFICES ASSUME EnvInv, Production(env), stage = "serving"
               PROVE  /\ Origins(env) \subseteq {"https"} /\ Origins(env) # {}
                      /\ env.BETTER_AUTH_TRUSTED_ORIGINS = "absent"
                      /\ \A i \in 1..Len(env.ring) :
                           env.ring[i].version >= env.ring[1].version => i = 1
    BY DEF ProductionBoundary
  <2>1. ValidEnv(env)
    BY DEF EnvInv
  <2>2. env.FRONTEND_URL # "absent"
    BY <2>1 DEF ValidEnv, RequiredVars, Truthy
  <2>3. env.BETTER_AUTH_URL \in {"https", "slash"} /\ env.FRONTEND_URL = "https"
    BY <2>1, <2>2 DEF ValidEnv, HttpUrlOK
  <2>4. Origins(env) = {"https"}
    BY <2>3 DEF Origins, Truthy
  <2>5. env.ring \in Seq(Entry) /\ RingOK(env.ring)
    BY <2>1, EnvironmentsAssumption DEF EnvInv, ValidEnv, SecretsOK
  <2>6. ASSUME NEW i \in 1..Len(env.ring), i # 1
        PROVE  ~(env.ring[i].version >= env.ring[1].version)
    BY <2>5, <2>6, NewestFirst
  <2> QED
    BY <2>1, <2>4, <2>6 DEF ValidEnv
<1> QED
  BY <1>1, EnvironmentInvariant, PTL
-----------------------------------------------------------------------------
(* The types of the process and of its requests                            *)

Conns == [Request -> {"new", "waiting", "idle", "closed"}]

ProcessTypes ==
  /\ env \in Environments
  /\ stage \in {"validate", "logger", "prisma", "app", "bind", "serving",
                "closing", "disconnecting"}
  /\ exit \in {"none", "0", "1", "crash", "killed"}
  /\ shutdownStarted \in BOOLEAN
  /\ shutdownStarted <=> stage \in {"closing", "disconnecting"}
  /\ hardExit \in Nat \cup {Never} /\ elapsed \in Nat /\ signals \in Nat
  /\ hardExit = Never <=> ~shutdownStarted \/ exit = "0"
  /\ db \in {"connected", "disconnected"}

Resting == {"new", "body", "session", "again", "betterAuth", "service", "database"} \cup Over

PipelineTypes ==
  /\ phase \in [Request -> Resting]
  /\ kind \in [Request -> [route : Routes, client : Client] \cup {NoKind}]
  /\ counts \in [Limiter -> [Key -> Nat]] /\ windows \in Nat

LEMMA TypeOKParts == TypeOK <=> ProcessTypes /\ conn \in Conns /\ PipelineTypes
BY DEF TypeOK, ProcessTypes, Conns, PipelineTypes, Resting

LEMMA KeyOfIsKey ==
  ASSUME NEW client \in Client
  PROVE  KeyOf(client) \in Key
BY DEF KeyOf, Key

\* A request is counted by one limiter at most.
LEMMA CountedOnce ==
  ASSUME NEW route
  PROVE  /\ Counted(route) \subseteq Limiter
         /\ \A l, m \in Counted(route) : l = m
BY DEF Counted, Limiter

LEMMA AdmitRests ==
  ASSUME NEW route
  PROVE  Admit(route) \in Resting \ {"new", "refused"}
BY DEF Admit, Resting, Over

\* A handler moves its own request on, which is neither new nor refused then.
LEMMA HandleMoves ==
  ASSUME NEW r \in Request, Handle(r)
  PROVE  /\ phase[r] \notin {"new", "refused"}
         /\ \E to \in Resting \ {"new", "refused"} : phase' = [phase EXCEPT ![r] = to]
         /\ UNCHANGED <<kind, counts, windows>>
<1>1. CASE ParseBody(r)
  BY <1>1 DEF ParseBody, To, Resting, Over
<1>2. CASE Authenticate(r)
  BY <1>2 DEF Authenticate, To, Resting, Over
<1>3. CASE Answer(r)
  BY <1>3 DEF Answer, To, Resting, Over
<1> QED
  BY <1>1, <1>2, <1>3 DEF Handle

LEMMA EnterTyped ==
  ASSUME PipelineTypes, NEW r \in Request,
         NEW q \in [route : Routes, client : Client], Enter(r, q)
  PROVE  PipelineTypes'
<1> DEFINE key == KeyOf(q.client)
<1>1. key \in Key
  BY KeyOfIsKey
<1> HIDE DEF key
<1>2. counts' = [l \in Limiter |->
           IF l \in Counted(q.route) /\ counts[l][key] <= Limit[l]
           THEN [counts[l] EXCEPT ![key] = @ + 1] ELSE counts[l]]
  BY DEF Enter, key
<1>3. counts' \in [Limiter -> [Key -> Nat]]
  BY <1>1, <1>2 DEF PipelineTypes
<1>4. /\ kind' = [kind EXCEPT ![r] = q] /\ windows' = windows
      /\ \E to \in {"refused", Admit(q.route)} : phase' = [phase EXCEPT ![r] = to]
  BY DEF Enter
<1>5. phase' \in [Request -> Resting]
  BY <1>4, AdmitRests DEF PipelineTypes, Resting, Over
<1> QED
  BY <1>3, <1>4, <1>5 DEF PipelineTypes

LEMMA ServeTyped ==
  ASSUME PipelineTypes, Serve
  PROVE  PipelineTypes'
<1>1. CASE Window
  BY <1>1 DEF Window, WindowEnds, PipelineTypes
<1>2. ASSUME NEW r \in Request, Receive(r) PROVE PipelineTypes'
  BY <1>2, EnterTyped DEF Receive
<1>3. ASSUME NEW r \in Request, Work(r) PROVE PipelineTypes'
  BY <1>3, HandleMoves DEF Work, PipelineTypes
<1>4. ASSUME NEW r \in Request, Disconnect(r) PROVE PipelineTypes'
  BY <1>4 DEF Disconnect, pipeline, PipelineTypes
<1> QED
  BY <1>1, <1>2, <1>3, <1>4 DEF Serve

\* Nothing but Serve touches the requests themselves.
LEMMA OthersKeepPipeline ==
  ASSUME Start \/ Stop \/ Tick \/ UNCHANGED vars
  PROVE  UNCHANGED pipeline
BY DEF Start, Validate, LoadModules, Load, Listen, Advance, Exit, Stop, Signal, Shutdown,
       Close, DisconnectPrisma, HardExit, Tick, vars, requests

LEMMA StartTyped ==
  ASSUME ProcessTypes, Start
  PROVE  ProcessTypes'
BY DEF ProcessTypes, Start, Validate, LoadModules, Load, Listen, Advance, Exit, Running

LEMMA StopTyped ==
  ASSUME ProcessTypes, Stop \/ Tick
  PROVE  ProcessTypes'
<1>1. CASE Signal
  <2>1. Running /\ signals' \in Nat
    BY <1>1 DEF ProcessTypes, Signal
  <2>2. CASE stage \in {"serving", "closing", "disconnecting"} /\ Shutdown
    <3>1. elapsed + Deadline \in Nat /\ elapsed + Deadline # Never
      BY LifecycleAssumption DEF ProcessTypes, Never
    <3> QED
      BY <2>1, <2>2, <3>1 DEF ProcessTypes, Shutdown, Running
  <2>3. CASE /\ stage \in {"validate", "logger", "prisma", "app"}
             /\ exit' \in {"none", "killed"}
             /\ UNCHANGED <<env, stage, shutdownStarted, hardExit, elapsed, requests, db>>
    BY <2>1, <2>3 DEF ProcessTypes, Running
  <2> QED
    BY <1>1, <2>2, <2>3 DEF Signal
<1>2. CASE Close
  <2>1. /\ UNCHANGED <<env, shutdownStarted, hardExit, elapsed, signals, db>>
        /\ Running /\ stage = "closing"
    BY <1>2 DEF Close, Advance, Exit
  <2>2. \/ stage' = "disconnecting" /\ exit' = exit
        \/ stage' = stage /\ exit' = "1"
    BY <1>2 DEF Close, Advance, Exit
  <2> QED
    BY <2>1, <2>2 DEF ProcessTypes, Running
<1>3. CASE DisconnectPrisma
  BY <1>3 DEF ProcessTypes, DisconnectPrisma, Exit, Running
<1>4. CASE HardExit
  BY <1>4 DEF ProcessTypes, HardExit, Exit, Running
<1>5. CASE Tick
  BY <1>5 DEF ProcessTypes, Tick, Running
<1> QED
  BY <1>1, <1>2, <1>3, <1>4, <1>5 DEF Stop

LEMMA TypesInductive == TypeOK /\ ShutdownInv' /\ [Next]_vars => TypeOK'
<1> SUFFICES ASSUME ProcessTypes, PipelineTypes, ShutdownInv', [Next]_vars
             PROVE  ProcessTypes' /\ conn' \in Conns /\ PipelineTypes'
  BY DEF TypeOK, ProcessTypes, Conns, PipelineTypes, Resting
<1>1. conn' \in Conns
  BY DEF ShutdownInv, Conns
<1>2. CASE Serve
  <2>1. UNCHANGED <<env, lifecycle, db>>
    BY <1>2 DEF Serve, Window, Receive, Work, Disconnect
  <2> QED
    BY <1>1, <1>2, <2>1, ServeTyped DEF ProcessTypes, lifecycle
<1>3. CASE Start \/ Stop \/ Tick
  BY <1>1, <1>3, StartTyped, StopTyped, OthersKeepPipeline DEF PipelineTypes, pipeline
<1>4. CASE UNCHANGED vars
  BY <1>1, <1>4 DEF vars, lifecycle, requests, pipeline, ProcessTypes, PipelineTypes
<1> QED
  BY <1>2, <1>3, <1>4 DEF Next

\* The stage, the flag, the fallback timer and the phases of the requests keep to
\* their values, whichever steps of clients, signals and timers come next; the
\* fallback is armed exactly from the first signal to the graceful exit.
THEOREM LifecycleTypes == Spec => []TypeOK
<1>1. Init => TypeOK
  <2> SUFFICES ASSUME Init PROVE ProcessTypes /\ conn \in Conns /\ PipelineTypes
    BY TypeOKParts
  <2>1. ProcessTypes /\ conn \in Conns
    BY DEF Init, ProcessTypes, Conns, Never
  <2>2. PipelineTypes
    BY DEF Init, PipelineInit, PipelineTypes, Resting
  <2> QED
    BY <2>1, <2>2
<1> QED
  BY <1>1, TypesInductive, ShutdownInvariant, PTL DEF Spec

-----------------------------------------------------------------------------
(* The limiters                                                            *)

Least(m, n) == IF m <= n THEN m ELSE n

\* What the windows that have ended may have let pass, and what the counter of
\* this one says; it goes on counting when it refuses.
Allowance(l, k) == Limit[l] * windows + Least(counts[l][k], Limit[l])

QuotaInv ==
  \A l \in Limiter, k \in Key :
    IsFiniteSet(Admitted(l, k)) /\ Cardinality(Admitted(l, k)) <= Allowance(l, k)

LEMMA WindowsAddUp ==
  ASSUME NEW limit \in Nat, NEW w \in Nat
  PROVE  limit * w \in Nat /\ limit * (w + 1) = limit * w + limit
OBVIOUS

LEMMA AllowanceIsNat ==
  ASSUME PipelineTypes, NEW l \in Limiter, NEW k \in Key
  PROVE  /\ Limit[l] \in Nat /\ counts[l][k] \in Nat
         /\ Limit[l] * windows \in Nat
         /\ Allowance(l, k) \in Nat
         /\ Allowance(l, k) <= Limit[l] * (windows + 1)
<1>1. Limit[l] \in Nat /\ counts[l][k] \in Nat /\ windows \in Nat
  BY PipelineAssumption DEF PipelineTypes
<1>2. Limit[l] * windows \in Nat /\ Limit[l] * (windows + 1) = Limit[l] * windows + Limit[l]
  BY <1>1, WindowsAddUp
<1> QED
  BY <1>1, <1>2 DEF Allowance, Least

\* A set that is empty satisfies any allowance.
LEMMA InitQuota ==
  ASSUME Init
  PROVE  QuotaInv
<1> SUFFICES ASSUME NEW l \in Limiter, NEW k \in Key
             PROVE  IsFiniteSet(Admitted(l, k)) /\ Cardinality(Admitted(l, k)) <= Allowance(l, k)
  BY DEF QuotaInv
<1>1. PipelineTypes
  BY DEF Init, PipelineInit, PipelineTypes, Resting
<1>2. Admitted(l, k) = {}
  BY DEF Admitted, Init, PipelineInit
<1> QED
  BY <1>1, <1>2, AllowanceIsNat, FS_EmptySet

\* A request is admitted only by a counter below its limit, which counts it.
LEMMA EnterQuota ==
  ASSUME PipelineTypes, QuotaInv, env' = env, NEW r \in Request, phase[r] = "new",
         NEW q \in [route : Routes, client : Client], Enter(r, q)
  PROVE  QuotaInv'
<1> SUFFICES ASSUME NEW l \in Limiter, NEW k \in Key
             PROVE  /\ IsFiniteSet(Admitted(l, k)')
                    /\ Cardinality(Admitted(l, k)') <= Allowance(l, k)'
  BY DEF QuotaInv
<1>1. PICK key : key = KeyOf(q.client)
  OBVIOUS
<1>2. /\ counts' = [m \in Limiter |->
           IF m \in Counted(q.route) /\ counts[m][key] <= Limit[m]
           THEN [counts[m] EXCEPT ![key] = @ + 1] ELSE counts[m]]
      /\ kind' = [kind EXCEPT ![r] = q] /\ windows' = windows
      /\ phase' = [phase EXCEPT ![r] =
           IF \E m \in Counted(q.route) : counts[m][key] >= Limit[m]
           THEN "refused" ELSE Admit(q.route)]
  BY <1>1 DEF Enter
<1>3. /\ IsFiniteSet(Admitted(l, k)) /\ Cardinality(Admitted(l, k)) \in Nat
      /\ Cardinality(Admitted(l, k)) <= Allowance(l, k)
      /\ r \notin Admitted(l, k)
  BY FS_CardinalityType DEF QuotaInv, Admitted
<1>4. Limit[l] \in Nat /\ counts[l][k] \in Nat /\ Limit[l] * windows \in Nat
  BY AllowanceIsNat
<1>5. /\ phase \in [Request -> Resting] /\ DOMAIN kind = Request
      /\ counts[l] \in [Key -> Nat]
  BY DEF PipelineTypes
<1>6. \A c : KeyOf(c)' = KeyOf(c)
  BY DEF KeyOf
<1>7. ASSUME NEW s \in Request, s # r
      PROVE  s \in Admitted(l, k)' <=> s \in Admitted(l, k)
  BY <1>2, <1>5, <1>6, <1>7 DEF Admitted
<1>8. CASE l \in Counted(q.route) /\ k = key /\ counts[l][k] < Limit[l]
  <2>1. counts'[l][k] = counts[l][k] + 1
    BY <1>2, <1>4, <1>5, <1>8
  <2>2. phase'[r] \notin {"new", "refused"} /\ kind'[r] = q
    BY <1>2, <1>4, <1>5, <1>8, CountedOnce, AdmitRests
  <2>3. r \in Admitted(l, k)'
    BY <1>1, <1>6, <1>8, <2>2 DEF Admitted
  <2>4. Admitted(l, k)' = Admitted(l, k) \cup {r}
    BY <1>7, <2>3 DEF Admitted
  <2>5. /\ IsFiniteSet(Admitted(l, k)')
        /\ Cardinality(Admitted(l, k)') = Cardinality(Admitted(l, k)) + 1
    BY <1>3, <2>4, FS_AddElement
  <2> QED
    BY <1>2, <1>3, <1>4, <1>8, <2>1, <2>5 DEF Allowance, Least
<1>9. CASE ~(l \in Counted(q.route) /\ k = key /\ counts[l][k] < Limit[l])
  <2>1. r \notin Admitted(l, k)'
    <3>1. ASSUME l \in Counted(q.route), k = key PROVE phase'[r] = "refused"
      BY <1>2, <1>4, <1>5, <1>9, <3>1
    <3>2. kind'[r] = q
      BY <1>2, <1>5
    <3> QED
      BY <1>1, <1>6, <3>1, <3>2 DEF Admitted
  <2>2. Admitted(l, k)' = Admitted(l, k)
    BY <1>3, <1>7, <2>1 DEF Admitted
  <2>3. Least(counts'[l][k], Limit[l]) = Least(counts[l][k], Limit[l])
    <3>1. CASE l \in Counted(q.route) /\ k = key
      <4>1. counts[l][k] >= Limit[l]
        BY <1>4, <1>9, <3>1
      <4>2. counts'[l][k] \in {counts[l][k], counts[l][k] + 1}
        BY <1>2, <1>5, <3>1
      <4> QED
        BY <1>4, <4>1, <4>2 DEF Least
    <3>2. CASE ~(l \in Counted(q.route) /\ k = key)
      <4>1. counts'[l][k] = counts[l][k]
        BY <1>2, <1>5, <3>2
      <4> QED
        BY <4>1
    <3> QED
      BY <3>1, <3>2
  <2> QED
    BY <1>2, <1>3, <2>2, <2>3 DEF Allowance
<1> QED
  BY <1>8, <1>9

\* A counter that starts over has let no more pass than a window allows.
LEMMA WindowQuota ==
  ASSUME PipelineTypes, QuotaInv, env' = env, WindowEnds
  PROVE  QuotaInv'
<1> SUFFICES ASSUME NEW l \in Limiter, NEW k \in Key
             PROVE  /\ IsFiniteSet(Admitted(l, k)')
                    /\ Cardinality(Admitted(l, k)') <= Allowance(l, k)'
  BY DEF QuotaInv
<1>1. windows' = windows + 1 /\ UNCHANGED <<phase, kind>>
  BY DEF WindowEnds
<1>2. Admitted(l, k)' = Admitted(l, k)
  BY <1>1 DEF Admitted, KeyOf
<1>3. IsFiniteSet(Admitted(l, k)) /\ Cardinality(Admitted(l, k)) <= Allowance(l, k)
  BY DEF QuotaInv
<1>4. Cardinality(Admitted(l, k)) \in Nat
  BY <1>3, FS_CardinalityType
<1>5. /\ Limit[l] \in Nat /\ Allowance(l, k) \in Nat
      /\ Allowance(l, k) <= Limit[l] * (windows + 1)
      /\ Limit[l] * (windows + 1) \in Nat
  BY AllowanceIsNat, WindowsAddUp DEF PipelineTypes
<1>6. counts'[l][k] \in Nat
  BY DEF WindowEnds, PipelineTypes
<1>7. Allowance(l, k)' >= Limit[l] * (windows + 1)
  BY <1>1, <1>5, <1>6 DEF Allowance, Least
<1>8. Allowance(l, k)' \in Nat
  BY <1>1, <1>5, <1>6 DEF Allowance, Least
<1> QED
  BY <1>2, <1>3, <1>4, <1>5, <1>7, <1>8

LEMMA QuotaInductive == TypeOK /\ QuotaInv /\ [Next]_vars => QuotaInv'
<1> SUFFICES ASSUME PipelineTypes, QuotaInv, [Next]_vars PROVE QuotaInv'
  BY TypeOKParts
<1>1. env' = env
  BY DEF Next, Start, Validate, LoadModules, Load, Listen, Advance, Exit, Serve, Window,
         Receive, Work, Disconnect, Stop, Signal, Shutdown, Close, DisconnectPrisma,
         HardExit, Tick, vars
<1>2. CASE UNCHANGED pipeline
  BY <1>1, <1>2 DEF pipeline, QuotaInv, Allowance, Admitted, KeyOf
<1>3. CASE Window
  BY <1>1, <1>3, WindowQuota DEF Window
<1>4. ASSUME NEW r \in Request, Receive(r) PROVE QuotaInv'
  BY <1>1, <1>4, EnterQuota DEF Receive
<1>5. ASSUME NEW r \in Request, Work(r) PROVE QuotaInv'
  <2>1. Handle(r)
    BY <1>5 DEF Work
  <2>2. UNCHANGED <<kind, counts, windows>>
    BY <2>1, HandleMoves
  <2>3. ASSUME NEW s \in Request
        PROVE  phase'[s] \in {"new", "refused"} <=> phase[s] \in {"new", "refused"}
    BY <2>1, HandleMoves DEF PipelineTypes
  <2>4. ASSUME NEW l, NEW k PROVE Admitted(l, k)' = Admitted(l, k)
    BY <1>1, <2>2, <2>3 DEF Admitted, KeyOf
  <2> QED
    BY <2>2, <2>4 DEF QuotaInv, Allowance
<1>6. ASSUME NEW r \in Request, Disconnect(r) PROVE UNCHANGED pipeline
  BY <1>6 DEF Disconnect
<1> QED
  BY <1>2, <1>3, <1>4, <1>5, <1>6, OthersKeepPipeline DEF Next, Serve

\* For any number of clients and requests, and whatever the limits are: behind a
\* limiter there are never more requests of a client than the windows allow.
THEOREM QuotaIsKept == Spec => []QuotaHolds
<1>1. TypeOK /\ QuotaInv => QuotaHolds
  <2> SUFFICES ASSUME PipelineTypes, QuotaInv, NEW l \in Limiter, NEW k \in Key
               PROVE  Cardinality(Admitted(l, k)) <= Limit[l] * (windows + 1)
    BY TypeOKParts DEF QuotaHolds
  <2>1. /\ Cardinality(Admitted(l, k)) \in Nat
        /\ Cardinality(Admitted(l, k)) <= Allowance(l, k)
    BY FS_CardinalityType DEF QuotaInv
  <2>2. Allowance(l, k) \in Nat /\ Allowance(l, k) <= Limit[l] * (windows + 1)
    BY AllowanceIsNat
  <2>3. Limit[l] * (windows + 1) \in Nat
    BY AllowanceIsNat, WindowsAddUp DEF PipelineTypes
  <2> QED
    BY <2>1, <2>2, <2>3
<1> QED
  BY <1>1, InitQuota, QuotaInductive, LifecycleTypes, PTL DEF Spec

-----------------------------------------------------------------------------
(* The answers of the error handler                                        *)

\* The two tables of Prisma codes agree, for every code there is.
LEMMA TablesAgree ==
  ASSUME NEW code \in PrismaCodes
  PROVE  ~ExpectedPrismaError(code) <=> HandlePrismaError(code) >= 500
BY DEF PrismaCodes, ExpectedPrismaError, HandlePrismaError

LEMMA StatusOfCaller ==
  ASSUME NEW code \in {"400", "401", "403", "404", "409"}
  PROVE  ~(StatusOf(code) >= 500)
BY DEF StatusOf

\* An error that is answered as the server's is recorded as one, and no other
\* but a query that Prisma refuses to run.
THEOREM FailuresAreLevelled == Spec => []FailuresLevelled
<1>1. ASSUME NEW err \in Errors
      PROVE  LogLevelOf(err) = "error" <=>
               HandledStatus(err) >= 500 \/ err.type = "prismaValidation"
  <2>1. CASE err \in [type : {"prisma"}, code : PrismaCodes]
    BY <2>1, TablesAgree DEF LogLevelOf, HandledStatus
  <2>2. CASE err \in [type : {"app", "validation"}, code : {"400", "401", "403", "404", "409"}]
    <3>1. err.type \in {"app", "validation"} /\ ~(StatusOf(err.code) >= 500)
      BY <2>2, StatusOfCaller
    <3>2. HandledStatus(err) = StatusOf(err.code) /\ LogLevelOf(err) = "warn"
      BY <3>1 DEF LogLevelOf, HandledStatus
    <3> QED
      BY <3>1, <3>2
  <2>3. CASE err \in [type : {"tooLarge", "parseFailed", "prismaValidation", "unknown"}, code : {""}]
    <3>1. CASE err.type = "tooLarge"
      BY <3>1 DEF LogLevelOf, HandledStatus
    <3>2. CASE err.type = "parseFailed"
      BY <3>2 DEF LogLevelOf, HandledStatus
    <3>3. CASE err.type = "prismaValidation"
      BY <3>3 DEF LogLevelOf, HandledStatus
    <3>4. CASE err.type = "unknown"
      BY <3>4 DEF LogLevelOf, HandledStatus
    <3> QED
      BY <2>3, <3>1, <3>2, <3>3, <3>4
  <2> QED
    BY <2>1, <2>2, <2>3 DEF Errors
<1>2. \A route : ErrorsOf(route) \subseteq Errors
  BY DEF ErrorsOf
<1>3. FailuresLevelled
  BY <1>1, <1>2 DEF FailuresLevelled
<1> QED
  BY <1>3, PTL
=============================================================================
